---- MODULE Spec2Model ----
(***************************************************************************)
(* SENTRY: the audit pipeline (sanitize, compile, analyze, verify) and the *)
(* pure functions it is built from, as state machines.                     *)
(*                                                                         *)
(* Source text is modelled as a sequence of tokens [k, v]: k is the kind   *)
(* of token, v the path segments a token carries (the text between the     *)
(* slashes of an import path, or of free text).  Regular expressions of    *)
(* the code are matched on these token sequences, whitespace and newline   *)
(* tokens included.                                                        *)
(***************************************************************************)
EXTENDS Integers, Sequences, FiniteSets, TLC

VARIABLES
    sanIn,        \* sanitizer run: the raw source handed to sanitizeImports
    sanOut,       \* sanitizer run: SanitizerResult of the first pass
    sanOut2,      \* sanitizer run: SanitizerResult of sanitizing sanOut.code
    sanValid,     \* sanitizer run: validateSanitizedCode(sanOut.code)
    sanPhase,     \* sanitizer run: "input", "once", "twice"
    pc,           \* audit: where runFullPipeline stands
    env,          \* process environment: platform and which forge candidates work
    code,         \* audit: the raw source of the request
    sanitizerResult,    \* audit: sanitizeImports(code)
    outputLogs,   \* audit: the transcript
    verdict,      \* audit: the local verdict of runFullPipeline
    result,       \* audit: the AuditResult returned
    res,          \* endpoint: the HTTP response sent for the request
    files,        \* the file system: path -> content
    cachedForgeCommand, \* compiler module: the resolved forge command, "" for null
    calls,        \* audit: the calls, child processes and requests issued, in order
    compilerResult,     \* audit: what compileCode returned
    provider,     \* audit: the provider configuration read from the environment
    modelIdx,     \* analyze: index of the model being tried
    analysisResult,     \* audit: what analyzeContract returned
    verificationResult, \* audit: what verifyHypothesis returned
    testRun,      \* audit: how the test command ended
    attempts,     \* analyze: the provider requests issued, in order, and how each ended
    exchange,     \* analyze: the provider response parsed, and the result of parsing it
    thrown,       \* audit: the message of the exception thrown inside the pipeline
    child,        \* build: the child process of executeForge
    timer,        \* build: the deadline timer of executeForge
    timedOut,     \* build: the timedOut flag of executeForge
    cpc,          \* build: where a compileCode call stands
    callers,      \* resolver: the getForgeCommand calls, each with where it stands
    audits        \* server: the requests being handled, each with where it stands

svars == <<sanIn, sanOut, sanOut2, sanValid, sanPhase>>

pvars == <<pc, env, code, sanitizerResult, outputLogs, verdict, result, res, files,
           cachedForgeCommand, calls, compilerResult, provider, modelIdx,
           analysisResult, verificationResult, testRun>>

gvars == <<attempts, exchange, thrown>>

cvars == <<child, timer, timedOut, cpc>>

rvars == <<callers, audits>>

vars == <<svars, pvars, gvars, cvars, rvars>>

\* ------------------------------------------------------------------ bounds

\* Lines of a raw source handed to the sanitizer.
MaxLines == 2

\* Calls of getForgeCommand that can be under way at once.
MaxCallers == 2

\* ------------------------------------------------------------------ text

Tok(kind) == [k |-> kind, v |-> <<>>]
Str(kind, path) == [k |-> kind, v |-> path]

NL == Tok("nl")
WS == Tok("ws")
IMPORT == Tok("import")
SEMI == Tok("semi")

IsWs(t) == t.k \in {"ws", "nl"}
IsQuoted(t) == t.k \in {"dq", "sq"} /\ t.v # <<>>

\* Length of the run of \s characters of s that starts at position p.
RECURSIVE WsRun(_, _)
WsRun(s, p) == IF p <= Len(s) /\ IsWs(s[p]) THEN 1 + WsRun(s, p + 1) ELSE 0

\* ^ and $ under the m flag: p is the position of the next character.
AtLineStart(s, p) == p = 1 \/ s[p - 1].k = "nl"
AtLineEnd(s, p) == p > Len(s) \/ s[p].k = "nl"

KindAt(s, p) == IF p >= 1 /\ p <= Len(s) THEN s[p].k ELSE "eof"

SetMax(S) == CHOOSE x \in S : \A y \in S : y <= x

\* ------------------------------------------------------------- sanitizer

OZ == "@openzeppelin"

IMPORT_WHITELIST ==
    << [pattern |-> <<OZ, "contracts", "access", "Ownable.sol">>,
        mock |-> <<"mocks", "Ownable.sol">>],
       [pattern |-> <<OZ, "contracts-upgradeable", "access", "OwnableUpgradeable.sol">>,
        mock |-> <<"mocks", "Ownable.sol">>],
       [pattern |-> <<OZ, "contracts", "token", "ERC20", "IERC20.sol">>,
        mock |-> <<"mocks", "IERC20.sol">>],
       [pattern |-> <<OZ, "contracts", "token", "ERC20", "ERC20.sol">>,
        mock |-> <<"mocks", "ERC20.sol">>],
       [pattern |-> <<OZ, "contracts", "token", "ERC20", "extensions", "IERC20Metadata.sol">>,
        mock |-> <<"mocks", "IERC20.sol">>],
       [pattern |-> <<OZ, "contracts-upgradeable", "token", "ERC20", "IERC20Upgradeable.sol">>,
        mock |-> <<"mocks", "IERC20.sol">>],
       [pattern |-> <<OZ, "contracts", "token", "ERC20", "utils", "SafeERC20.sol">>,
        mock |-> <<"mocks", "IERC20.sol">>] >>

\* pattern.test(importPath): an unanchored match, anywhere in the path.
PatternTest(pattern, path) ==
    \E i \in 0..(Len(path) - Len(pattern)) :
        SubSeq(path, i + 1, i + Len(pattern)) = pattern

\* The first whitelist entry whose pattern matches, 0 when none does.
WhitelistLookup(path) ==
    LET hits == {i \in 1..Len(IMPORT_WHITELIST) :
                    PatternTest(IMPORT_WHITELIST[i].pattern, path)}
    IN IF hits = {} THEN 0 ELSE CHOOSE i \in hits : \A j \in hits : i <= j

\* \s*;?\s*$ from position q on: the position after the match, 0 for none.
\* The regex backtracks greedily: with the semicolon first, longest tail first.
TailEnd(s, q) ==
    LET n1 == WsRun(s, q)
        hasSemi == KindAt(s, q + n1) = "semi"
        n2 == WsRun(s, q + n1 + 1)
        semiEnds == {e \in (q + n1 + 1)..(q + n1 + 1 + n2) : AtLineEnd(s, e)}
        plainEnds == {e \in q..(q + n1) : AtLineEnd(s, e)}
    IN IF hasSemi /\ semiEnds # {} THEN SetMax(semiEnds)
       ELSE IF plainEnds # {} THEN SetMax(plainEnds)
       ELSE 0

NoMatch == [ok |-> FALSE, lead |-> <<>>, path |-> <<>>, end |-> 0]

\* IMPORT_PATTERN tried at position p of s:
\*   ^(\s*)import\s+(?:(?:\{[^}]*\}\s+from\s+)?["']([^"']+)["']|["']([^"']+)["'])\s*;?\s*$
MatchImport(s, p) ==
    LET l == WsRun(s, p)
        i == p + l
        w == WsRun(s, i + 1)
        j == i + 1 + w
        w2 == WsRun(s, j + 1)
        f == j + 1 + w2
        w3 == WsRun(s, f + 1)
        named == KindAt(s, j) = "braces" /\ w2 >= 1 /\ KindAt(s, f) = "from" /\ w3 >= 1
        pathAt == IF named THEN f + 1 + w3 ELSE j
        e == TailEnd(s, pathAt + 1)
    IN IF AtLineStart(s, p) /\ KindAt(s, i) = "import" /\ w >= 1
          /\ pathAt <= Len(s) /\ IsQuoted(s[pathAt]) /\ e # 0
       THEN [ok |-> TRUE, lead |-> SubSeq(s, p, i - 1), path |-> s[pathAt].v, end |-> e]
       ELSE NoMatch

\* ALIASED_IMPORT_PATTERN tried at position p of s:
\*   ^(\s*)import\s+["']([^"']+)["']\s+as\s+\w+\s*;?\s*$
MatchAliased(s, p) ==
    LET l == WsRun(s, p)
        i == p + l
        w == WsRun(s, i + 1)
        j == i + 1 + w
        w2 == WsRun(s, j + 1)
        a == j + 1 + w2
        w3 == WsRun(s, a + 1)
        n == a + 1 + w3
        e == TailEnd(s, n + 1)
    IN IF AtLineStart(s, p) /\ KindAt(s, i) = "import" /\ w >= 1
          /\ j <= Len(s) /\ IsQuoted(s[j]) /\ w2 >= 1 /\ KindAt(s, a) = "as"
          /\ w3 >= 1 /\ KindAt(s, n) = "word" /\ e # 0
       THEN [ok |-> TRUE, lead |-> SubSeq(s, p, i - 1), path |-> s[j].v, end |-> e]
       ELSE NoMatch

\* `${leadingWhitespace}import "${mockPath}";`
RemappedText(lead, mockPath) == lead \o <<IMPORT, WS, Str("dq", mockPath), SEMI>>

\* `${leadingWhitespace}// IMPORT REMOVED BY SENTRY SANITIZER: ${importPath}`
RemovedText(lead, importPath) == lead \o <<Tok("removed-by-sentry"), Str("raw", importPath)>>

\* The replace callback: what one matched import statement becomes, and
\* what it adds to remappedImports and removedImports.
ImportCallback(acc, lead, importPath) ==
    LET w == WhitelistLookup(importPath) IN
    IF importPath = <<>> THEN
        [acc EXCEPT !.code = @ \o RemovedText(lead, importPath),
                    !.removedImports = Append(@, importPath)]
    ELSE IF w # 0 THEN
        [acc EXCEPT !.code = @ \o RemappedText(lead, IMPORT_WHITELIST[w].mock),
                    !.remappedImports =
                        Append(@, [original |-> importPath,
                                   mocked |-> IMPORT_WHITELIST[w].mock])]
    ELSE
        [acc EXCEPT !.code = @ \o RemovedText(lead, importPath),
                    !.removedImports = Append(@, importPath)]

\* sanitizedCode.replace(IMPORT_PATTERN, callback), scanning from position p.
RECURSIVE ReplaceImports(_, _, _)
ReplaceImports(s, p, acc) ==
    IF p > Len(s) THEN acc
    ELSE LET m == MatchImport(s, p) IN
         IF m.ok THEN ReplaceImports(s, m.end, ImportCallback(acc, m.lead, m.path))
         ELSE ReplaceImports(s, p + 1, [acc EXCEPT !.code = Append(@, s[p])])

\* sanitizedCode.replace(ALIASED_IMPORT_PATTERN, callback), from position p.
RECURSIVE ReplaceAliased(_, _, _)
ReplaceAliased(s, p, acc) ==
    IF p > Len(s) THEN acc
    ELSE LET m == MatchAliased(s, p) IN
         IF m.ok THEN ReplaceAliased(s, m.end, ImportCallback(acc, m.lead, m.path))
         ELSE ReplaceAliased(s, p + 1, [acc EXCEPT !.code = Append(@, s[p])])

sanitizeImports(src) ==
    LET first == ReplaceImports(src, 1,
                    [code |-> <<>>, remappedImports |-> <<>>, removedImports |-> <<>>])
        second == ReplaceAliased(first.code, 1, [first EXCEPT !.code = <<>>])
    IN [code |-> second.code,
        remappedImports |-> second.remappedImports,
        removedImports |-> second.removedImports,
        success |-> TRUE]

\* The i flag of externalImportPattern: letter case is ignored.
Lower(seg) ==
    CASE seg = "@OpenZeppelin" -> "@openzeppelin"
      [] seg = "Hardhat" -> "hardhat"
      [] OTHER -> seg

UntrustedPrefixes == {"@openzeppelin", "@chainlink", "@uniswap", "hardhat"}

\* externalImportPattern.test(code): an untrusted prefix anywhere in the text.
ContainsUntrusted(src) ==
    \E i \in 1..Len(src) : \E n \in 1..Len(src[i].v) :
        Lower(src[i].v[n]) \in UntrustedPrefixes

validateSanitizedCode(src) == ~ContainsUntrusted(src)

\* ------------------------------------------------- sanitizer: its inputs

SamplePaths ==
    { <<OZ, "contracts", "access", "Ownable.sol">>,
      <<OZ, "contracts", "utils", "Address.sol">>,
      <<"@chainlink", "contracts", "Aggregator.sol">>,
      <<".", "Lib.sol">>,
      <<"mocks", "Ownable.sol">> }

DirectImport(path) == <<IMPORT, WS, Str("dq", path), SEMI>>
SingleQuotedImport(path) == <<WS, IMPORT, WS, Str("sq", path)>>
NamedImport(path) ==
    <<IMPORT, WS, Tok("braces"), WS, Tok("from"), WS, Str("dq", path), SEMI>>
AliasedImport(path) ==
    <<IMPORT, WS, Str("dq", path), WS, Tok("as"), WS, Tok("word"), SEMI>>
StarImport(path) ==
    <<IMPORT, WS, Tok("star"), WS, Tok("as"), WS, Tok("word"), WS, Tok("from"), WS,
      Str("dq", path), SEMI>>

SampleLines ==
    {DirectImport(p) : p \in SamplePaths}
    \cup {NamedImport(p) : p \in SamplePaths}
    \cup {AliasedImport(p) : p \in SamplePaths}
    \cup {SingleQuotedImport(<<"hardhat", "console.sol">>),
          StarImport(<<OZ, "contracts", "access", "Ownable.sol">>),
          <<Tok("code")>>,
          <<Tok("comment"), Str("raw", <<"@OpenZeppelin">>)>>,
          <<IMPORT, WS, Str("dq", <<>>), SEMI>>,
          <<>>}

RECURSIVE JoinLines(_)
JoinLines(lines) ==
    IF Len(lines) = 0 THEN <<>>
    ELSE IF Len(lines) = 1 THEN lines[1]
    ELSE lines[1] \o <<NL>> \o JoinLines(Tail(lines))

SampleSources ==
    {JoinLines(ls) : ls \in UNION {[1..n -> SampleLines] : n \in 1..MaxLines}}

NoResult == [code |-> <<>>, remappedImports |-> <<>>, removedImports |-> <<>>,
             success |-> FALSE]

\* ------------------------------------------------------------ file system

\* path.resolve(base, ...parts): ".." steps to the parent directory.
RECURSIVE Resolve(_, _)
Resolve(base, parts) ==
    IF parts = <<>> THEN base
    ELSE IF Head(parts) = ".."
         THEN Resolve(IF base = <<>> THEN <<>> ELSE SubSeq(base, 1, Len(base) - 1),
                      Tail(parts))
         ELSE Resolve(Append(base, Head(parts)), Tail(parts))

\* __dirname of backend/src/index.ts and of backend/src/engine/*.ts.
IndexDir == <<"SENTRY", "backend", "src">>
EngineDir == <<"SENTRY", "backend", "src", "engine">>

WORKSPACE_ROOT == Resolve(IndexDir, <<"..", "workspace">>)
WORKSPACE_SRC == Resolve(WORKSPACE_ROOT, <<"src">>)
WORKSPACE_DIR == Resolve(EngineDir, <<"..", "..", "..", "..", "workspace">>)
WORKSPACE_TEST_PATH == Resolve(EngineDir, <<"..", "..", "..", "workspace", "test">>)
VERIFIER_WORKSPACE_ROOT == Resolve(EngineDir, <<"..", "..", "..", "workspace">>)

NoFiles == [p \in {} |-> [kind |-> "none"]]

\* fs.writeFileSync(path, content): creates or overwrites.
WriteFile(fs, path, content) ==
    [p \in DOMAIN fs \cup {path} |-> IF p = path THEN content ELSE fs[p]]

\* ---------------------------------------------------------------- logging

\* One entry of the transcript: detail holds what the message interpolates.
Entry(level, msg, detail) == [level |-> level, msg |-> msg, detail |-> detail]

\* log with an assignment in place of +=: what was logged before is lost.
LogOverwriting(logs, msgs) == [i \in 1..Len(msgs) |-> Entry("log", msgs[i], {})]

\* log(msg) for each message of msgs, in order.
Log(logs, msgs) == logs \o [i \in 1..Len(msgs) |-> Entry("log", msgs[i], {})]

\* logError(msg) for each message of msgs, in order: "[ERROR] " + msg.
LogError(logs, msgs) == logs \o [i \in 1..Len(msgs) |-> Entry("error", msgs[i], {})]

InstallHint == "Install: curl -L https://foundry.paradigm.xyz | bash && foundryup"

\* ------------------------------------------------------------- toolchain

Environments ==
    {e \in [platform : {"linux", "win32"}, native : BOOLEAN, wsl : BOOLEAN,
            wslPath : BOOLEAN] :
        e.platform = "linux" => (~e.wsl /\ ~e.wslPath)}

\* Whether `<cmd> --version` exits 0 in environment e.
ProbeOk(e, cmd) ==
    CASE cmd = "forge" -> e.native
      [] cmd = "wsl forge" -> e.platform = "win32" /\ e.wsl
      [] cmd = "wsl ~/.foundry/bin/forge" -> e.platform = "win32" /\ e.wslPath
      [] OTHER -> FALSE

Call(op, arg) == [op |-> op, arg |-> arg]
Probe(cmd) == Call("probe", cmd)

Callers == 1..MaxCallers

\* A call of getForgeCommand: idx is the candidate whose probe it awaits, ret
\* what it returned, late whether it started after another call had returned.
NoCall == [pc |-> "idle", idx |-> 0, ret |-> "", late |-> FALSE]

NoCallers == [c \in Callers |-> NoCall]

\* The requests the server handles at a time.
AuditIds == {"A", "B"}

\* One request: where its handler stands, the code it came with, the target
\* its analysis returned, the source its build compiled, the harness its
\* test run compiled, and whether another request was in flight meanwhile.
NoRun == [pc |-> "idle", code |-> <<>>, target |-> <<>>, built |-> <<>>,
          tested |-> <<>>, overlapped |-> FALSE]

NoAudits == [a \in AuditIds |-> NoRun]

\* The candidates lines 182-216 probe, in order.
Candidates(e) ==
    IF e.platform = "win32"
    THEN <<"forge", "wsl forge", "wsl ~/.foundry/bin/forge">>
    ELSE <<"forge">>

\* getForgeCommand(): the command, the cache afterwards, the probes spawned.
getForgeCommand(cache, e) ==
    IF cache # "" THEN [cmd |-> cache, cache |-> cache, probes |-> <<>>]
    ELSE IF ProbeOk(e, "forge")
    THEN [cmd |-> "forge", cache |-> "forge", probes |-> <<Probe("forge")>>]
    ELSE IF e.platform = "win32"
    THEN IF ProbeOk(e, "wsl forge")
         THEN [cmd |-> "wsl forge", cache |-> "wsl forge",
               probes |-> <<Probe("forge"), Probe("wsl forge")>>]
         ELSE IF ProbeOk(e, "wsl ~/.foundry/bin/forge")
         THEN [cmd |-> "wsl ~/.foundry/bin/forge", cache |-> "wsl ~/.foundry/bin/forge",
               probes |-> <<Probe("forge"), Probe("wsl forge"),
                            Probe("wsl ~/.foundry/bin/forge")>>]
         ELSE [cmd |-> "forge", cache |-> "",
               probes |-> <<Probe("forge"), Probe("wsl forge"),
                            Probe("wsl ~/.foundry/bin/forge")>>]
    ELSE [cmd |-> "forge", cache |-> "", probes |-> <<Probe("forge")>>]

\* isFoundryAvailable(): resolve the command, then probe it once more.
isFoundryAvailable(cache, e) ==
    LET r == getForgeCommand(cache, e) IN
    [available |-> ProbeOk(e, r.cmd), cache |-> r.cache,
     probes |-> Append(r.probes, Probe(r.cmd))]

\* --------------------------------------------------------------- compiler

FileOf(kind, body) == [kind |-> kind, body |-> body]

MocksSourceDir == Resolve(WORKSPACE_DIR, <<"..", "contracts", "mocks">>)
MocksDestDir == Resolve(WORKSPACE_DIR, <<"src", "mocks">>)

FilesIn(fs, dir) ==
    {p \in DOMAIN fs : Len(p) = Len(dir) + 1 /\ SubSeq(p, 1, Len(dir)) = dir}

\* copyMocksToWorkspace(): every fixture of the source directory, when it exists.
copyMocksToWorkspace(fs) ==
    LET found == FilesIn(fs, MocksSourceDir)
        dest(p) == Append(MocksDestDir, p[Len(p)])
    IN [q \in DOMAIN fs \cup {dest(p) : p \in found} |->
            IF \E p \in found : dest(p) = q
            THEN fs[CHOOSE p \in found : dest(p) = q]
            ELSE fs[q]]

\* The write of line 64 left out.
writeContractToWorkspaceSkipped(fs, src) == fs

\* writeContractToWorkspace(code): workspace/src/Vault.sol of the compiler.
writeContractToWorkspace(fs, src) ==
    WriteFile(fs, Resolve(WORKSPACE_DIR, <<"src", "Vault.sol">>), FileOf("contract", src))

BuildOutcomes == {"exit 0", "exit 1", "timeout", "spawn error"}

\* The CompilerResult executeForge resolves with for a build outcome.
BuildResult(outcome) ==
    [success |-> outcome = "exit 0",
     status |-> CASE outcome = "exit 0" -> "SUCCESS"
                  [] outcome = "exit 1" -> "FAILED"
                  [] outcome = "timeout" -> "TIMEOUT"
                  [] OTHER -> "SPAWN ERROR"]

CompilerError == [success |-> FALSE, status |-> "SENTRY COMPILER ERROR"]
NoCompilerResult == [success |-> FALSE, status |-> "none"]

\* No child process: executeForge has not spawned one.
NoChild == [spawned |-> FALSE, cmd |-> "", exited |-> FALSE, exit |-> "none",
            killed |-> FALSE, closed |-> FALSE]

\* ------------------------------------------------------------- analyzer

\* Fallback models configured besides the primary one.
MaxFallbackModels == 1

\* Hypotheses in one provider response.
MaxHypotheses == 2

RawProviders == {"openrouter", "openai", "gemini", "other"}

ProviderEnvs ==
    {c \in [aiProvider : RawProviders, key : BOOLEAN, models : 1..(1 + MaxFallbackModels)] :
        c.aiProvider \in {"openai", "gemini"} => c.models = 1}

NoProvider == [aiProvider |-> "unread", key |-> FALSE, models |-> 0]

\* getProviderConfig().provider: anything but openai and gemini is openrouter.
ProviderOf(c) == IF c.aiProvider \in {"openai", "gemini"} THEN c.aiProvider ELSE "openrouter"

\* The check of the key left out: every provider is reported configured.
isAPIKeyConfiguredAlways(c) == TRUE

\* isAPIKeyConfigured() for the environment c.
isAPIKeyConfigured(c) ==
    CASE ProviderOf(c) = "openrouter" -> TRUE
      [] ProviderOf(c) = "openai" -> c.key
      [] ProviderOf(c) = "gemini" -> c.key
      [] OTHER -> FALSE

\* [this.model, ...this.fallbackModels]; openai and gemini try one model.
ModelsToTry(c) == IF ProviderOf(c) = "openrouter" THEN c.models ELSE 1

Withdraw == <<"w", "i", "t", "h", "d", "r", "a", "w">>

\* JSON numbers are counted in steps of 1/FractionSteps: Num(90, 0) is 90 and
\* Num(72, 5) is 72 and five steps.
FractionSteps == 10
Num(whole, steps) == whole * FractionSteps + steps
IsInteger(n) == n % FractionSteps = 0

\* Provider texts are sequences of characters.
LowerCaseLetters ==
    <<"a", "b", "c", "d", "e", "f", "g", "h", "i", "j", "k", "l", "m", "n", "o", "p", "q", "r", "s", "t", "u", "v", "w", "x", "y", "z">>
UpperCaseLetters ==
    <<"A", "B", "C", "D", "E", "F", "G", "H", "I", "J", "K", "L", "M", "N", "O", "P", "Q", "R", "S", "T", "U", "V", "W", "X", "Y", "Z">>

UpperCaseSet == {UpperCaseLetters[j] : j \in 1..26}

IsUpperCaseLetter(ch) == ch \in UpperCaseSet

\* The upper-case letter of each lower-case letter.
UpperCaseOf ==
    [ch \in {LowerCaseLetters[j] : j \in 1..26} |->
        UpperCaseLetters[CHOOSE j \in 1..26 : LowerCaseLetters[j] = ch]]

\* String.prototype.toUpperCase()
toUpperCase(text) ==
    [i \in 1..Len(text) |->
        IF text[i] \in DOMAIN UpperCaseOf THEN UpperCaseOf[text[i]] ELSE text[i]]

\* text.replace(/[^A-Z]/g, '_'): each other character becomes an underscore.
UnderscoreNonLetters(text) ==
    [i \in 1..Len(text) |-> IF IsUpperCaseLetter(text[i]) THEN text[i] ELSE "_"]

\* The same normalisation with the other characters removed.
DropNonLetters(text) == SelectSeq(text, IsUpperCaseLetter)

\* One line of reasoning; a text with line breaks is the sequence of its lines.
PlainReasoning == <<"anyone can call it">>

\* One element of the hypotheses array of a response: wrong names the
\* fields whose JSON value is not of the type the schema asks for.
RawHypothesis(target, type, confidence, wrong) ==
    [target |-> target, vulnerabilityType |-> type, confidence |-> confidence,
     reasoning |-> PlainReasoning, wrong |-> wrong]

AccessControlText == <<"A", "C", "C", "E", "S", "S", "_", "C", "O", "N", "T", "R", "O", "L">>
ReentrancyText == <<"r", "e", "e", "n", "t", "r", "a", "n", "c", "y">>
LogicText == <<"L", "O", "G", "I", "C">>

SampleRawHypotheses ==
    { RawHypothesis(Withdraw, AccessControlText, Num(90, 0), {}),
      RawHypothesis(Withdraw \o <<"(", ")">>, AccessControlText, Num(80, 0), {}),
      RawHypothesis(Withdraw, ReentrancyText, Num(50, 0), {}),
      RawHypothesis(Withdraw, LogicText, Num(150, 0), {}),
      RawHypothesis(Withdraw, LogicText, Num(-1, 0), {}),
      RawHypothesis(<<>>, AccessControlText, Num(90, 0), {}),
      RawHypothesis(Withdraw, AccessControlText, Num(90, 0), {"target"}),
      RawHypothesis(Withdraw, AccessControlText, Num(90, 0), {"vulnerabilityType"}),
      RawHypothesis(Withdraw, AccessControlText, Num(90, 0), {"reasoning"}) }

\* What one provider request can come back with.
Responses ==
    {[kind |-> k, hasHypotheses |-> FALSE, hypotheses |-> <<>>] :
        k \in {"empty", "error", "not json", "json"}}
    \cup {[kind |-> "json", hasHypotheses |-> TRUE, hypotheses |-> hs] :
            hs \in UNION {[1..n -> SampleRawHypotheses] : n \in 0..MaxHypotheses}}

\* The validation without its loop over the hypotheses.
validateAIResponseArrayOnly(r) == r.hasHypotheses

\* validateAIResponse(parsed)
validateAIResponse(r) ==
    /\ r.hasHypotheses
    /\ \A i \in 1..Len(r.hypotheses) :
        /\ "target" \notin r.hypotheses[i].wrong
        /\ Len(r.hypotheses[i].target) > 0
        /\ "vulnerabilityType" \notin r.hypotheses[i].wrong
        /\ "confidence" \notin r.hypotheses[i].wrong
        /\ r.hypotheses[i].confidence >= Num(0, 0)
        /\ r.hypotheses[i].confidence <= Num(100, 0)
        /\ "reasoning" \notin r.hypotheses[i].wrong

\* The names the switch of mapVulnerabilityType recognises.
AccessControlNames ==
    { <<"A", "C", "C", "E", "S", "S", "_", "C", "O", "N", "T", "R", "O", "L">>,
      <<"A", "C", "C", "E", "S", "S", "C", "O", "N", "T", "R", "O", "L">>,
      <<"M", "I", "S", "S", "I", "N", "G", "_", "A", "C", "C", "E", "S", "S", "_", "C", "O", "N", "T", "R", "O", "L">> }
ReentrancyNames == { <<"R", "E", "E", "N", "T", "R", "A", "N", "C", "Y">> }
OverflowNames ==
    { <<"O", "V", "E", "R", "F", "L", "O", "W">>,
      <<"U", "N", "D", "E", "R", "F", "L", "O", "W">>,
      <<"I", "N", "T", "E", "G", "E", "R", "_", "O", "V", "E", "R", "F", "L", "O", "W">> }

\* The switch over a normalised text.
MapNormalized(normalized) ==
    CASE normalized \in AccessControlNames -> "ACCESS_CONTROL"
      [] normalized \in ReentrancyNames -> "REENTRANCY"
      [] normalized \in OverflowNames -> "OVERFLOW"
      [] OTHER -> "OTHER"

mapVulnerabilityType(type) == MapNormalized(UnderscoreNonLetters(toUpperCase(type)))

AnalysisFailure(error) == [success |-> FALSE, hypotheses |-> <<>>, error |-> error]
NoAnalysis == AnalysisFailure("none")

\* parseResponse(content) of the providers.
parseResponse(r) ==
    IF r.kind = "not json" THEN AnalysisFailure("Invalid JSON response")
    ELSE IF ~validateAIResponse(r)
    THEN AnalysisFailure("Response does not match expected schema")
    ELSE [success |-> TRUE,
          hypotheses |-> [i \in 1..Len(r.hypotheses) |->
                [target |-> r.hypotheses[i].target,
                 vulnerabilityType |-> mapVulnerabilityType(r.hypotheses[i].vulnerabilityType),
                 confidence |-> r.hypotheses[i].confidence,
                 reasoning |-> r.hypotheses[i].reasoning]],
          error |-> ""]

\* The loop without its fallback: the first failure is returned.
AttemptNoFallback(r, isLastModel) ==
    IF r.kind = "empty"
    THEN [retry |-> FALSE, response |-> AnalysisFailure("Empty response")]
    ELSE IF r.kind = "error"
    THEN [retry |-> FALSE, response |-> AnalysisFailure("API error")]
    ELSE [retry |-> FALSE, response |-> parseResponse(r)]

\* One iteration of the loop of analyze(): the AnalysisResponse it returns,
\* or retry = TRUE when it goes on to the next model.
Attempt(r, isLastModel) ==
    IF r.kind = "empty"
    THEN [retry |-> ~isLastModel, response |-> AnalysisFailure("Empty response")]
    ELSE IF r.kind = "error"
    THEN [retry |-> ~isLastModel, response |-> AnalysisFailure("API error")]
    ELSE LET parsed == parseResponse(r) IN
         [retry |-> ~parsed.success /\ ~isLastModel, response |-> parsed]

\* `await this.client.chat.completions.create(...)` for the model of index i:
\* the request is in flight until it returns or throws.
IssueRequest(att, i) == Append(att, [model |-> i, outcome |-> "pending"])

\* The awaited request never settles the attempt.
SettleRequestNever(att, success) == att

\* The awaited request has returned or thrown; success is whether the
\* iteration got a schema-valid response out of it.
SettleRequest(att, success) ==
    [att EXCEPT ![Len(att)].outcome = IF success THEN "valid" ELSE "failed"]

NoExchange == [raw |-> [kind |-> "none", hasHypotheses |-> FALSE, hypotheses |-> <<>>],
               parsed |-> NoAnalysis]

\* -------------------------------------------------------------- verifier

IdentStart == {"a", "d", "h", "i", "r", "t", "w", "_"}
IdentChar == IdentStart \cup {"0", "1"}

\* target.trim()
RECURSIVE TrimLeft(_)
TrimLeft(t) == IF t # <<>> /\ Head(t) = " " THEN TrimLeft(Tail(t)) ELSE t
RECURSIVE TrimRight(_)
TrimRight(t) ==
    IF t # <<>> /\ t[Len(t)] = " " THEN TrimRight(SubSeq(t, 1, Len(t) - 1)) ELSE t
Trim(t) == TrimRight(TrimLeft(t))

\* The validation without its pattern: any non-empty target passes.
isValidFunctionNameAny(target) == target # <<>>

\* VALID_FUNCTION_NAME = /^[a-zA-Z_][a-zA-Z0-9_]*$/ on the trimmed target.
isValidFunctionName(target) ==
    /\ target # <<>>
    /\ LET t == Trim(target) IN
        /\ t # <<>>
        /\ t[1] \in IdentStart
        /\ \A i \in 2..Len(t) : t[i] \in IdentChar

\* The harness template: backend/templates/AttackerHarness.sol.
INJECTION_MARKER == Tok("// {{INJECT_ATTACK_CODE}}")

TemplateBody ==
    << Str("import", <<"forge-std", "Test.sol">>),
       Str("import", <<"..", "src", "Vault.sol">>),
       Str("public target", <<"Vault">>),
       Str("target = new", <<"Vault">>),
       INJECTION_MARKER,
       Tok("assertTrue(false, EXPLOIT SUCCEEDED)") >>

TemplateStates == {"ok", "missing", "no marker"}

\* What readFileSync(HARNESS_TEMPLATE_PATH) yields in a template state.
TemplateContent(state) ==
    IF state = "no marker"
    THEN SelectSeq(TemplateBody, LAMBDA t : t # INJECTION_MARKER)
    ELSE TemplateBody

\* `// Reasoning: ${hypothesis.reasoning}`: the comment marker stands before
\* the first line of the text only; each further line is a source line of
\* its own.
ReasoningLines(reasoning) ==
    <<Str("// Reasoning:", <<reasoning[1]>>)>>
    \o [i \in 1..(Len(reasoning) - 1) |-> Str("source line", <<reasoning[i + 1]>>)]

\* generateExploitCode(hypothesis)
generateExploitCode(h) ==
    LET target == Trim(h.target) IN
    CASE h.vulnerabilityType = "ACCESS_CONTROL" ->
            << Str("// Testing Access Control", <<>>),
               Str("// Target Function:", target),
               Str("// Vulnerability Type:", <<h.vulnerabilityType>>),
               Str("// Confidence:", <<>>) >>
            \o ReasoningLines(h.reasoning)
            \o << Str("target.call", target) >>
      [] h.vulnerabilityType = "REENTRANCY" ->
            << Str("// Testing Reentrancy", <<>>),
               Str("// Target Function:", target),
               Str("// Vulnerability Type:", <<h.vulnerabilityType>>),
               Str("// Confidence:", <<>>),
               Str("target.call", target) >>
      [] OTHER ->
            << Str("// Generic Access Test", <<>>),
               Str("// Target Function:", target),
               Str("// Vulnerability Type:", <<h.vulnerabilityType>>),
               Str("// Confidence:", <<>>),
               Str("target.call", target) >>

\* String.replace(search, replacement) on tokens: the first occurrence only.
RECURSIVE ReplaceFirst(_, _, _)
ReplaceFirst(s, search, replacement) ==
    IF s = <<>> THEN <<>>
    ELSE IF Head(s) = search THEN replacement \o Tail(s)
    ELSE <<Head(s)>> \o ReplaceFirst(Tail(s), search, replacement)

\* String.replace(/.../g, replacement) on tokens: every occurrence.
ReplaceEvery(s, search, replacement) ==
    [i \in 1..Len(s) |-> IF s[i] = search THEN replacement ELSE s[i]]

\* A contract file name, with what userCodeFileName.replace(/\.sol$/i, '') leaves.
VaultFile == [file |-> "Vault.sol", name |-> "Vault"]
SampleFileNames ==
    { VaultFile,
      [file |-> "Token.sol", name |-> "Token"],
      [file |-> "Vault.SOL", name |-> "Vault"] }

ContractNameOf(userCodeFileName) == userCodeFileName.name

\* Steps 4 and 5 of injectExploit: the rendered harness.
RenderHarness(template, userCodeFileName, h) ==
    LET contractName == ContractNameOf(userCodeFileName)
        renamed ==
            IF contractName # "Vault"
            THEN ReplaceEvery(
                    ReplaceEvery(
                        ReplaceFirst(template,
                            Str("import", <<"src", "Vault.sol">>),
                            <<Str("import", <<"src", userCodeFileName.file>>)>>),
                        Str("public target", <<"Vault">>),
                        Str("public target", <<contractName>>)),
                    Str("target = new", <<"Vault">>),
                    Str("target = new", <<contractName>>))
            ELSE template
    IN ReplaceFirst(renamed, INJECTION_MARKER, generateExploitCode(h))

TestFilePath == Append(WORKSPACE_TEST_PATH, "Attacker.t.sol")

InjectionFailure(error) == [success |-> FALSE, error |-> error, harness |-> <<>>]

\* injectExploit(userCodeFileName, hypothesis): template is the state of the
\* template file, writeOk whether the file system accepts the write.
injectExploit(userCodeFileName, h, template, writeOk) ==
    IF ~isValidFunctionName(h.target)
    THEN InjectionFailure("Invalid target function name")
    ELSE IF template = "missing"
    THEN InjectionFailure("Harness template not found")
    ELSE IF \A i \in 1..Len(TemplateContent(template)) :
                TemplateContent(template)[i] # INJECTION_MARKER
    THEN InjectionFailure("Injection marker not found in harness template")
    ELSE IF ~writeOk
    THEN InjectionFailure("write failed")
    ELSE [success |-> TRUE, error |-> "",
          harness |-> RenderHarness(TemplateContent(template), userCodeFileName, h)]

\* The texts the classification of a test run looks for.
EXPLOIT == "EXPLOIT SUCCEEDED"
Markers == {EXPLOIT, "[FAIL]", "[PASS]", "compil", "error"}

\* What the test command can end with: threw is a non-zero exit, a kill at
\* the 60 second bound or a spawn failure; out the marked texts in stdout and
\* stderr; text whether they hold anything else; message the marked texts of
\* the exception message.
TestOutcomes ==
    {o \in [threw : BOOLEAN, out : SUBSET Markers, text : BOOLEAN,
            message : SUBSET {"compil", "error"}] :
        /\ (o.out # {} => o.text)
        /\ (o.message # {} => (o.threw /\ ~o.text))}

\* The test command without the probes of lines 259-284.
TestCommandNativeOnly(e) == "forge"

\* The command line of the test run (lines 257-284 of the verifier).
TestCommand(e) ==
    IF e.platform = "win32" /\ ~ProbeOk(e, "forge")
    THEN IF ProbeOk(e, "wsl forge") THEN "wsl forge"
         ELSE IF ProbeOk(e, "wsl ~/.foundry/bin/forge") THEN "wsl ~/.foundry/bin/forge"
         ELSE "forge"
    ELSE "forge"

\* The version probes the test run issues with exec.
TestProbes(e) ==
    IF e.platform # "win32" THEN <<>>
    ELSE IF ProbeOk(e, "forge") THEN <<Probe("forge")>>
    ELSE IF ProbeOk(e, "wsl forge") THEN <<Probe("forge"), Probe("wsl forge")>>
    ELSE <<Probe("forge"), Probe("wsl forge"), Probe("wsl ~/.foundry/bin/forge")>>

\* The classification with [PASS] looked at before [FAIL].
ClassifyOutputPassFirst(out) ==
    IF EXPLOIT \in out THEN "VULNERABILITY_CONFIRMED"
    ELSE IF "[PASS]" \in out THEN "INCONCLUSIVE"
    ELSE IF "[FAIL]" \in out THEN "FALSE_POSITIVE"
    ELSE IF "compil" \in out /\ "error" \in out THEN "COMPILATION_FAILED"
    ELSE "INCONCLUSIVE"

\* The classification with [FAIL] looked at before the exploit marker.
ClassifyOutputFailFirst(out) ==
    IF "[FAIL]" \in out THEN "FALSE_POSITIVE"
    ELSE IF EXPLOIT \in out THEN "VULNERABILITY_CONFIRMED"
    ELSE IF "[PASS]" \in out THEN "INCONCLUSIVE"
    ELSE IF "compil" \in out /\ "error" \in out THEN "COMPILATION_FAILED"
    ELSE "INCONCLUSIVE"

\* The verdict of a test command that exited 0 (lines 303-324).
ClassifyOutput(out) ==
    LET exploitSucceeded == EXPLOIT \in out
        testPassed == "[PASS]" \in out
        testFailed == "[FAIL]" \in out
    IN IF exploitSucceeded \/ (testFailed /\ EXPLOIT \in out)
       THEN "VULNERABILITY_CONFIRMED"
       ELSE IF testFailed /\ EXPLOIT \notin out THEN "FALSE_POSITIVE"
       ELSE IF testPassed THEN "INCONCLUSIVE"
       ELSE IF "compil" \in out /\ "error" \in out THEN "COMPILATION_FAILED"
       ELSE "INCONCLUSIVE"

\* The verdict of a test command that threw (lines 334-348).
ClassifyError(errorMessage) ==
    IF "compil" \in errorMessage \/ "error" \in errorMessage
    THEN "COMPILATION_FAILED"
    ELSE "INCONCLUSIVE"

\* runExploitTest(hypothesis) for an outcome of the test command.
runExploitTest(h, o) ==
    IF ~o.threw
    THEN [verdict |-> ClassifyOutput(o.out),
          targetFunction |-> h.target,
          exploitSucceeded |-> EXPLOIT \in o.out,
          testOutput |-> o.out]
    ELSE LET errorMessage == IF o.text THEN o.out ELSE o.message IN
         [verdict |-> ClassifyError(errorMessage),
          targetFunction |-> h.target,
          exploitSucceeded |-> FALSE,
          testOutput |-> errorMessage]

\* What verifyHypothesis returns when the injection failed.
InjectionFailed(h, injection) ==
    [verdict |-> "INCONCLUSIVE",
     targetFunction |-> h.target,
     exploitSucceeded |-> FALSE,
     testOutput |-> {"Injection failed", injection.error}]

NoVerification ==
    [verdict |-> "none", targetFunction |-> <<>>, exploitSucceeded |-> FALSE,
     testOutput |-> {}]

NoTestRun == [ran |-> FALSE, threw |-> FALSE, out |-> {}, text |-> FALSE, message |-> {}]

\* The test command ended with outcome o.
TestRan(o) ==
    [ran |-> TRUE, threw |-> o.threw, out |-> o.out, text |-> o.text, message |-> o.message]

\* -------------------------------------------------------------- pipeline

RepoFiles ==
    WriteFile(NoFiles, <<"SENTRY", "contracts", "mocks", "IERC20.sol">>, FileOf("mock", <<>>))

PipelineSources ==
    { JoinLines(<< DirectImport(<<OZ, "contracts", "access", "Ownable.sol">>),
                   <<Tok("code")>> >>),
      JoinLines(<< DirectImport(<<"@chainlink", "contracts", "Aggregator.sol">>),
                   <<Tok("code")>> >>) }

\* A truthy request body field that is not a string (a number, an object).
NotAString == <<Tok("not a string")>>

IsString(src) == src # NotAString

\* req.body.code of a request without a code field.
Undefined == <<Tok("undefined")>>

\* What the requests of the audit endpoint carry as code: a source, a value
\* that is not a string, the empty string, or no code field at all.
RequestBodies == PipelineSources \cup {NotAString, <<>>, Undefined}

\* The check of line 243 narrowed to a request without the field.
NoCodeFieldOnly(c) == c = Undefined

\* !code of line 243: true of undefined and of the empty string.
NoCode(c) == c = Undefined \/ c = <<>>

NoResponse == [status |-> 0, error |-> ""]

\* res.status(400).json({ error: 'No code provided' })
BadRequest == [status |-> 400, error |-> "No code provided"]

\* res.json(result)
Ok == [status |-> 200, error |-> ""]

\* How mkdirSync and writeFileSync of lines 79-85 end: "" is no exception.
StagingOutcomes == {"", "EACCES: permission denied", "ENOSPC: no space left on device"}

NoAudit == [logs |-> <<>>, verdict |-> "none"]

\* return { logs: outputLogs, verdict }
Return(logs, v) == [logs |-> logs, verdict |-> v]

\* The catch without the message in the transcript.
FatalNoMessage(logs, message) ==
    Return(Append(logs, Entry("error", "FATAL EXCEPTION", {})), "ERROR")

\* The catch of runFullPipeline (lines 225-228): the message of the Error
\* caught goes into the transcript.
Fatal(logs, message) ==
    Return(Append(logs, Entry("error", "FATAL EXCEPTION", {message})), "ERROR")

\* The check of line 110 left out: the pipeline goes on after a failed build.
CompilationFailedIgnored(r) == FALSE

\* Line 110: the build failed.
CompilationFailed(r) == ~r.success

\* The check of line 147 left out: an empty list goes on to verification.
AnalysisBranchNoEmptyCheck(r) == IF ~r.success THEN "error" ELSE "verify"

\* Lines 141-154: where the pipeline goes with the analysis result.
AnalysisBranch(r) ==
    IF ~r.success THEN "error"
    ELSE IF Len(r.hypotheses) = 0 THEN "secure"
    ELSE "verify"

\* The branches of lines 206 and 212 swapped.
ReduceVerdictSwapped(v) ==
    IF v = "CRITICAL_VULNERABILITY_FOUND" \/ v = "VULNERABILITY_CONFIRMED" THEN "CRITICAL"
    ELSE IF v = "FALSE_POSITIVE" THEN "UNKNOWN"
    ELSE "SECURE"

\* Lines 196-218: the audit verdict for the verdict of the verification.
ReduceVerdict(v) ==
    IF v = "CRITICAL_VULNERABILITY_FOUND" \/ v = "VULNERABILITY_CONFIRMED" THEN "CRITICAL"
    ELSE IF v = "FALSE_POSITIVE" THEN "SECURE"
    ELSE "UNKNOWN"

\* Lines 180-223: the transcript and the verdict once verifyHypothesis returned.
FinalVerdict(logs, vr) ==
    LET shown == Log(logs, <<"", "FOUNDRY OUTPUT:">>)
                 \o <<Entry("log", IF vr.testOutput = {} THEN "No output captured"
                                   ELSE "testOutput", vr.testOutput)>>
        v == ReduceVerdict(vr.verdict)
        closing ==
            CASE v = "CRITICAL" -> <<"FINAL VERDICT: CRITICAL VULNERABILITY CONFIRMED">>
              [] v = "SECURE" -> <<"FINAL VERDICT: VULNERABILITY NOT EXPLOITABLE">>
              [] OTHER -> <<"FINAL VERDICT: VERIFICATION INCONCLUSIVE">>
    IN Return(Log(shown, closing), v)

Init ==
    /\ pc = "received"
    /\ env \in Environments
    /\ code \in RequestBodies
    /\ sanitizerResult = NoResult
    /\ outputLogs = <<>>
    /\ verdict = "UNKNOWN"
    /\ result = NoAudit
    /\ res = NoResponse
    /\ files = RepoFiles
    /\ cachedForgeCommand = ""
    /\ calls = <<>>
    /\ compilerResult = NoCompilerResult
    /\ provider = NoProvider
    /\ modelIdx = 0
    /\ analysisResult = NoAnalysis
    /\ verificationResult = NoVerification
    /\ testRun = NoTestRun
    /\ attempts = <<>>
    /\ exchange = NoExchange
    /\ thrown = "none"
    /\ child = NoChild
    /\ timer = "unset"
    /\ timedOut = FALSE
    /\ cpc = "idle"
    /\ callers = NoCallers
    /\ audits = NoAudits
    /\ sanIn = <<>>
    /\ sanOut = NoResult
    /\ sanOut2 = NoResult
    /\ sanValid = FALSE
    /\ sanPhase = "idle"

\* POST /audit (lines 240-247): a request without code is answered 400,
\* any other is handed to runFullPipeline.
HandleAudit ==
    /\ pc = "received"
    /\ IF NoCode(code)
       THEN /\ res' = BadRequest
            /\ pc' = "rejected"
       ELSE /\ pc' = "start"
            /\ UNCHANGED res
    /\ UNCHANGED <<env, code, sanitizerResult, outputLogs, verdict, result, files,
                   cachedForgeCommand, calls, compilerResult, provider, modelIdx,
                   analysisResult, verificationResult, testRun, svars, rvars, gvars, cvars>>

\* The audit ends: runFullPipeline returns r and the handler sends it
\* (lines 249-251).
Finish(r) ==
    /\ result' = r
    /\ res' = Ok
    /\ outputLogs' = r.logs
    /\ verdict' = r.verdict
    /\ pc' = "done"

\* STEP A (lines 61-90): sanitize, write workspace/src/Vault.sol.
StepSanitize ==
    /\ pc = "start"
    /\ calls' = Append(calls, Call("sanitizeImports", ""))
    /\ LET started == Log(outputLogs, <<"", "SENTRY PIPELINE STARTED", "",
                                        "STEP A: SANITIZATION">>)
       IN IF ~IsString(code)
          THEN /\ thrown' = "sanitizedCode.replace is not a function"
               /\ Finish(Fatal(started, thrown'))
               /\ UNCHANGED <<sanitizerResult, files>>
          ELSE \E staging \in StagingOutcomes :
            /\ sanitizerResult' = sanitizeImports(code)
            /\ IF staging = ""
               THEN /\ files' = WriteFile(files, Append(WORKSPACE_SRC, "Vault.sol"),
                                          FileOf("contract", sanitizerResult'.code))
                    /\ outputLogs' = Log(started, <<"Sanitized (Imports remapped)",
                                                   "import(s) remapped",
                                                   "Saved to: workspace/src/Vault.sol", "",
                                                   "STEP B: COMPILATION">>)
                    /\ pc' = "preflight"
                    /\ UNCHANGED <<verdict, result, res, thrown>>
               ELSE /\ thrown' = staging
                    /\ Finish(Fatal(started, staging))
                    /\ UNCHANGED files
    /\ UNCHANGED <<env, code, cachedForgeCommand, compilerResult, provider, modelIdx,
                   analysisResult, verificationResult, testRun, attempts, exchange,
                   svars, rvars, cvars>>

\* Line 100: isFoundryAvailable is called and awaited; it spawns its version
\* probes one after the other, none with a timer, and awaits the close of
\* each (part_001 lines 183-187 and 342-346).
StepPreflight ==
    /\ pc = "preflight"
    /\ LET a == isFoundryAvailable(cachedForgeCommand, env) IN
        /\ calls' = Append(calls, Call("isFoundryAvailable", "")) \o <<Head(a.probes)>>
        /\ child' = [NoChild EXCEPT !.spawned = TRUE, !.cmd = Head(a.probes).arg]
    /\ pc' = "probing"
    /\ UNCHANGED <<env, code, sanitizerResult, outputLogs, verdict, result, res, files,
                   cachedForgeCommand, compilerResult, provider, modelIdx, analysisResult,
                   verificationResult, testRun, timer, timedOut, cpc, svars, rvars, gvars>>

\* The probes have closed and isFoundryAvailable resolves: lines 100-106.
StepPreflightClose ==
    /\ pc = "probing"
    /\ LET a == isFoundryAvailable(cachedForgeCommand, env)
           last == a.probes[Len(a.probes)].arg
       IN
        /\ cachedForgeCommand' = a.cache
        /\ calls' = calls \o Tail(a.probes)
        /\ child' = [NoChild EXCEPT !.spawned = TRUE, !.cmd = last, !.exited = TRUE,
                                    !.exit = IF a.available THEN "0" ELSE "127",
                                    !.closed = TRUE]
        /\ IF ~a.available
           THEN Finish(Return(LogError(outputLogs, <<"Error: Foundry not installed",
                                                     InstallHint>>), "ERROR"))
           ELSE /\ pc' = "compile"
                /\ UNCHANGED <<outputLogs, verdict, result, res>>
    /\ UNCHANGED <<env, code, sanitizerResult, files, compilerResult, provider, modelIdx,
                   analysisResult, verificationResult, testRun, timer, timedOut, cpc,
                   svars, rvars, gvars>>

\* Lines 108-125: compileCode and its check.
StepCompile ==
    /\ pc = "compile"
    /\ \E fsOk \in BOOLEAN, outcome \in BuildOutcomes :
        LET g == getForgeCommand(cachedForgeCommand, env) IN
        /\ IF fsOk
           THEN /\ files' = writeContractToWorkspace(copyMocksToWorkspace(files),
                                                     sanitizerResult.code)
                /\ cachedForgeCommand' = g.cache
                /\ calls' = Append(calls, Call("compileCode", "")) \o g.probes
                            \o <<Call("build", g.cmd)>>
                /\ compilerResult' = BuildResult(outcome)
           ELSE /\ compilerResult' = CompilerError
                /\ calls' = Append(calls, Call("compileCode", ""))
                /\ UNCHANGED <<files, cachedForgeCommand>>
        /\ IF CompilationFailed(compilerResult')
           THEN Finish(Return(LogError(outputLogs, <<"Error compiling",
                                                     compilerResult'.status>>), "ERROR"))
           ELSE /\ outputLogs' = Log(outputLogs, <<"Compiled (Foundry build success)", "",
                                                   "STEP C: AI ANALYSIS">>)
                /\ pc' = "apikey"
                /\ UNCHANGED <<verdict, result, res>>
    /\ UNCHANGED <<env, code, sanitizerResult, provider, modelIdx, analysisResult,
                   verificationResult, testRun, svars, rvars, gvars, cvars>>

\* Lines 127-139: the provider check, then analyzeContract is called.
StepCheckProvider ==
    /\ pc = "apikey"
    /\ \E c \in ProviderEnvs :
        /\ provider' = c
        /\ IF ~isAPIKeyConfigured(c)
           THEN /\ Finish(Return(LogError(outputLogs,
                        <<"Error: AI Provider API key not configured",
                          "Check .env file for AI_PROVIDER and corresponding API key">>),
                        "ERROR"))
                /\ UNCHANGED <<calls, modelIdx>>
           ELSE /\ outputLogs' = Log(outputLogs, <<"Analyzing (AI hypothesis...)">>)
                /\ calls' = Append(calls, Call("analyzeContract", ""))
                /\ modelIdx' = 1
                /\ pc' = "analyze"
                /\ UNCHANGED <<verdict, result, res>>
    /\ UNCHANGED <<env, code, sanitizerResult, files, cachedForgeCommand, compilerResult,
                   analysisResult, verificationResult, testRun, svars, rvars, gvars, cvars>>

\* analyze(): the request to the model of index modelIdx is issued and awaited.
StepIssue ==
    /\ pc = "analyze"
    /\ attempts' = IssueRequest(attempts, modelIdx)
    /\ calls' = Append(calls, Call("request", ""))
    /\ pc' = "awaiting"
    /\ UNCHANGED <<env, code, sanitizerResult, outputLogs, verdict, result, res, files,
                   cachedForgeCommand, compilerResult, provider, modelIdx, analysisResult,
                   verificationResult, testRun, exchange, thrown, svars, rvars, cvars>>

\* The awaited request returns or throws: the rest of the iteration of
\* analyze() and, when analyzeContract returns, lines 141-176 of the pipeline.
StepRequest ==
    /\ pc = "awaiting"
    /\ \E r \in Responses :
        LET a == Attempt(r, modelIdx = ModelsToTry(provider))
            branch == AnalysisBranch(a.response)
            noPrimary == branch = "verify" /\ Len(a.response.hypotheses) = 0
        IN
        /\ attempts' = SettleRequest(attempts, a.response.success)
        /\ exchange' = IF a.response.success THEN [raw |-> r, parsed |-> a.response]
                       ELSE exchange
        /\ IF a.retry
           THEN /\ modelIdx' = modelIdx + 1
                /\ pc' = "analyze"
                /\ UNCHANGED <<outputLogs, verdict, result, res, analysisResult, thrown>>
           ELSE /\ analysisResult' = a.response
                /\ thrown' = IF noPrimary
                             THEN "Cannot read properties of undefined (reading 'target')"
                             ELSE thrown
                /\ UNCHANGED modelIdx
                /\ CASE branch = "error" ->
                            Finish(Return(LogError(outputLogs,
                                <<"Error: AI analysis failed", a.response.error>>), "ERROR"))
                     [] branch = "secure" ->
                            Finish(Return(Log(outputLogs,
                                <<"Analysis complete: No vulnerabilities detected", "",
                                  "FINAL VERDICT: CONTRACT SECURE">>), "SECURE"))
                     [] OTHER ->
                            IF noPrimary
                            THEN Finish(Fatal(outputLogs, thrown'))
                            ELSE /\ outputLogs' = Log(outputLogs,
                                        <<"AI found", "Vulnerability Type", "Confidence",
                                          "Reasoning", "",
                                          "STEP D: EXPLOIT VERIFICATION",
                                          "Injecting Exploit...", "Target function", "",
                                          "Running Foundry...">>)
                                 /\ pc' = "inject"
                                 /\ UNCHANGED <<verdict, result, res>>
    /\ UNCHANGED <<env, code, sanitizerResult, files, cachedForgeCommand, compilerResult,
                   provider, verificationResult, testRun, calls, svars, rvars, cvars>>

\* The hypothesis of the last index taken instead of the first.
primaryHypothesisLast == analysisResult.hypotheses[Len(analysisResult.hypotheses)]

\* Line 157: const primaryHypothesis = analysisResult.hypotheses[0]
primaryHypothesis == analysisResult.hypotheses[1]

\* Line 178, first half: verifyHypothesis calls injectExploit; when the
\* injection fails it returns, and the pipeline reaches its verdict.
StepInject ==
    /\ pc = "inject"
    /\ \E template \in TemplateStates, writeOk \in BOOLEAN :
        LET injection == injectExploit(VaultFile, primaryHypothesis, template, writeOk) IN
        IF injection.success
        THEN /\ files' = WriteFile(files, TestFilePath, FileOf("harness", injection.harness))
             /\ calls' = calls \o <<Call("verifyHypothesis", template),
                                    Call("write", "Attacker.t.sol")>>
             /\ pc' = "test"
             /\ UNCHANGED <<outputLogs, verdict, result, res, verificationResult>>
        ELSE /\ verificationResult' = InjectionFailed(primaryHypothesis, injection)
             /\ calls' = Append(calls, Call("verifyHypothesis", template))
             /\ Finish(FinalVerdict(outputLogs, verificationResult'))
             /\ UNCHANGED files
    /\ UNCHANGED <<env, code, sanitizerResult, cachedForgeCommand, compilerResult, provider,
                   modelIdx, analysisResult, testRun, svars, rvars, gvars, cvars>>

\* Line 178, second half: runExploitTest, then lines 180-223.
StepRunTest ==
    /\ pc = "test"
    /\ \E o \in TestOutcomes :
        /\ testRun' = TestRan(o)
        /\ verificationResult' = runExploitTest(primaryHypothesis, o)
        /\ calls' = calls \o TestProbes(env) \o <<Call("test", TestCommand(env))>>
        /\ Finish(FinalVerdict(outputLogs, verificationResult'))
    /\ UNCHANGED <<env, code, sanitizerResult, files, cachedForgeCommand, compilerResult,
                   provider, modelIdx, analysisResult, svars, rvars, gvars, cvars>>

Next ==
    \/ HandleAudit
    \/ StepSanitize
    \/ StepPreflight
    \/ StepPreflightClose
    \/ StepCompile
    \/ StepCheckProvider
    \/ StepIssue
    \/ StepRequest
    \/ StepInject
    \/ StepRunTest

Spec == Init /\ [][Next]_vars

\* The steps that are bound to happen once an audit awaits its pre-flight:
\* those of the program itself, the provider requests (they return or fail
\* in the end) and the children guarded by a timer that fires in the end (the
\* build, lines 261-264 of part_001; the test run, line 290 of the verifier,
\* when no unguarded probe comes before it).  The close of a probe without
\* timer is up to the child.
Guaranteed ==
    \/ StepPreflight
    \/ StepCompile
    \/ StepCheckProvider
    \/ StepIssue
    \/ StepRequest
    \/ StepInject
    \/ (StepRunTest /\ TestProbes(env) = <<>>)

Fairness == WF_vars(Guaranteed)

\* An audit at its first await: the handler and lines 46-100 of
\* runFullPipeline run without interruption up to the call of
\* isFoundryAvailable.
InitLive ==
    /\ pc = "preflight"
    /\ env \in Environments
    /\ code \in PipelineSources
    /\ sanitizerResult = sanitizeImports(code)
    /\ outputLogs = Log(<<>>, <<"", "SENTRY PIPELINE STARTED", "",
                                "STEP A: SANITIZATION", "Sanitized (Imports remapped)",
                                "import(s) remapped", "Saved to: workspace/src/Vault.sol",
                                "", "STEP B: COMPILATION">>)
    /\ verdict = "UNKNOWN"
    /\ result = NoAudit
    /\ res = NoResponse
    /\ files = WriteFile(RepoFiles, Append(WORKSPACE_SRC, "Vault.sol"),
                         FileOf("contract", sanitizerResult.code))
    /\ cachedForgeCommand = ""
    /\ calls = <<Call("sanitizeImports", "")>>
    /\ compilerResult = NoCompilerResult
    /\ provider = NoProvider
    /\ modelIdx = 0
    /\ analysisResult = NoAnalysis
    /\ verificationResult = NoVerification
    /\ testRun = NoTestRun
    /\ attempts = <<>>
    /\ exchange = NoExchange
    /\ thrown = "none"
    /\ child = NoChild
    /\ timer = "unset"
    /\ timedOut = FALSE
    /\ cpc = "idle"
    /\ callers = NoCallers
    /\ audits = NoAudits
    /\ sanIn = <<>>
    /\ sanOut = NoResult
    /\ sanOut2 = NoResult
    /\ sanValid = FALSE
    /\ sanPhase = "idle"

NextLive ==
    \/ StepPreflight
    \/ StepPreflightClose
    \/ StepCompile
    \/ StepCheckProvider
    \/ StepIssue
    \/ StepRequest
    \/ StepInject
    \/ StepRunTest

SpecLive == InitLive /\ [][NextLive]_vars /\ Fairness

\* ------------------------------------------------ the sanitizer on its own

IdlePipeline ==
    /\ pc = "idle"
    /\ code = <<>>
    /\ sanitizerResult = NoResult
    /\ outputLogs = <<>>
    /\ verdict = "UNKNOWN"
    /\ result = NoAudit
    /\ res = NoResponse
    /\ files = RepoFiles
    /\ cachedForgeCommand = ""
    /\ calls = <<>>
    /\ compilerResult = NoCompilerResult
    /\ provider = NoProvider
    /\ modelIdx = 0
    /\ analysisResult = NoAnalysis
    /\ verificationResult = NoVerification
    /\ testRun = NoTestRun
    /\ attempts = <<>>
    /\ thrown = "none"
    /\ child = NoChild
    /\ timer = "unset"
    /\ timedOut = FALSE
    /\ cpc = "idle"
    /\ callers = NoCallers
    /\ audits = NoAudits

InitSanitizer ==
    /\ sanIn \in SampleSources
    /\ sanOut = NoResult
    /\ sanOut2 = NoResult
    /\ sanValid = FALSE
    /\ sanPhase = "input"
    /\ exchange = NoExchange
    /\ env = [platform |-> "linux", native |-> TRUE, wsl |-> FALSE, wslPath |-> FALSE]
    /\ IdlePipeline

\* sanitizeImports(code), then validateSanitizedCode on its output.
Sanitize ==
    /\ sanPhase = "input"
    /\ sanOut' = sanitizeImports(sanIn)
    /\ sanValid' = validateSanitizedCode(sanOut'.code)
    /\ sanPhase' = "once"
    /\ UNCHANGED <<sanIn, sanOut2, pvars, gvars, cvars, rvars>>

\* sanitizeImports applied to its own output.
SanitizeAgain ==
    /\ sanPhase = "once"
    /\ sanOut2' = sanitizeImports(sanOut.code)
    /\ sanPhase' = "twice"
    /\ UNCHANGED <<sanIn, sanOut, sanValid, pvars, gvars, cvars, rvars>>

NextSanitizer == Sanitize \/ SanitizeAgain

SpecSanitizer == InitSanitizer /\ [][NextSanitizer]_vars

\* ------------------------------------------------- compileCode on its own

\* The exit codes the build command can end with in environment e: the shell
\* answers 127 for a command it does not find.
ExitCodes(e, cmd) == IF ProbeOk(e, cmd) THEN {"0", "1"} ELSE {"127"}

\* resolve(...) of executeForge: only the first call settles the promise.
Resolve1(current, r) == IF current = NoCompilerResult THEN r ELSE current

\* clearTimeout(timeoutHandle)
ClearTimeout(t) == IF t = "armed" THEN "cleared" ELSE t

\* What the close handler (lines 283-310) resolves with.
CloseResult(flag, exit) ==
    IF flag THEN BuildResult("timeout")
    ELSE IF exit = "0" THEN BuildResult("exit 0")
    ELSE BuildResult("exit 1")

InitCompiler ==
    /\ pc = "idle"
    /\ env \in Environments
    /\ code \in PipelineSources
    /\ sanitizerResult = sanitizeImports(code)
    /\ cachedForgeCommand \in {"", getForgeCommand("", env).cache}
    /\ outputLogs = <<>>
    /\ verdict = "UNKNOWN"
    /\ result = NoAudit
    /\ res = NoResponse
    /\ files = RepoFiles
    /\ calls = <<>>
    /\ compilerResult = NoCompilerResult
    /\ provider = NoProvider
    /\ modelIdx = 0
    /\ analysisResult = NoAnalysis
    /\ verificationResult = NoVerification
    /\ testRun = NoTestRun
    /\ attempts = <<>>
    /\ exchange = NoExchange
    /\ thrown = "none"
    /\ child = NoChild
    /\ timer = "unset"
    /\ timedOut = FALSE
    /\ cpc = "start"
    /\ callers = NoCallers
    /\ audits = NoAudits
    /\ sanIn = <<>>
    /\ sanOut = NoResult
    /\ sanOut2 = NoResult
    /\ sanValid = FALSE
    /\ sanPhase = "idle"

\* compileCode (lines 129-171) up to the spawn of executeForge (lines
\* 227-270): stage the files, resolve the command, spawn, arm the timer.
CompileStart ==
    /\ cpc = "start"
    /\ \E fsOk \in BOOLEAN :
        LET g == getForgeCommand(cachedForgeCommand, env) IN
        IF fsOk
        THEN /\ files' = writeContractToWorkspace(copyMocksToWorkspace(files),
                                                  sanitizerResult.code)
             /\ cachedForgeCommand' = g.cache
             /\ calls' = Append(calls, Call("compileCode", "")) \o g.probes
                         \o <<Call("build", g.cmd)>>
             /\ child' = [NoChild EXCEPT !.spawned = TRUE, !.cmd = g.cmd]
             /\ timer' = "armed"
             /\ cpc' = "running"
             /\ UNCHANGED compilerResult
        ELSE /\ compilerResult' = CompilerError
             /\ calls' = Append(calls, Call("compileCode", ""))
             /\ cpc' = "returned"
             /\ UNCHANGED <<files, cachedForgeCommand, child, timer>>
    /\ UNCHANGED <<pc, env, code, sanitizerResult, outputLogs, verdict, result, res, provider,
                   modelIdx, analysisResult, verificationResult, testRun, timedOut,
                   svars, rvars, gvars>>

\* The child process ends by itself; executeForge listens for close, not exit.
ChildExit ==
    /\ cpc = "running"
    /\ child.spawned /\ ~child.exited
    /\ \E c \in ExitCodes(env, child.cmd) :
        child' = [child EXCEPT !.exited = TRUE, !.exit = c]
    /\ UNCHANGED <<pvars, svars, rvars, gvars, timer, timedOut, cpc>>

\* The spawn failed: the error handler (lines 312-320).
ChildError ==
    /\ cpc = "running"
    /\ child.spawned /\ ~child.exited
    /\ timer = "armed"
    /\ child' = [child EXCEPT !.exited = TRUE, !.exit = "errno"]
    /\ timer' = ClearTimeout(timer)
    /\ compilerResult' = Resolve1(compilerResult, BuildResult("spawn error"))
    /\ cpc' = "returned"
    /\ UNCHANGED <<pc, env, code, sanitizerResult, outputLogs, verdict, result, res, files,
                   cachedForgeCommand, calls, provider, modelIdx, analysisResult,
                   verificationResult, testRun, timedOut, svars, rvars, gvars>>

\* The deadline timer fires (lines 261-264): the flag is set and the child,
\* when it is still running, is killed.
TimerFires ==
    /\ timer = "armed"
    /\ timer' = "fired"
    /\ timedOut' = TRUE
    /\ child' = IF child.exited THEN child
                ELSE [child EXCEPT !.exited = TRUE, !.exit = "null", !.killed = TRUE]
    /\ UNCHANGED <<pvars, svars, rvars, gvars, cpc>>

\* The close event: the process has ended and its streams are closed
\* (lines 279-310).
ChildClose ==
    /\ child.exited /\ ~child.closed
    /\ child' = [child EXCEPT !.closed = TRUE]
    /\ timer' = ClearTimeout(timer)
    /\ compilerResult' = Resolve1(compilerResult, CloseResult(timedOut, child.exit))
    /\ cpc' = "returned"
    /\ UNCHANGED <<pc, env, code, sanitizerResult, outputLogs, verdict, result, res, files,
                   cachedForgeCommand, calls, provider, modelIdx, analysisResult,
                   verificationResult, testRun, timedOut, svars, rvars, gvars>>

NextCompiler ==
    \/ CompileStart
    \/ ChildExit
    \/ ChildError
    \/ TimerFires
    \/ ChildClose

SpecCompiler == InitCompiler /\ [][NextCompiler]_vars

\* -------------------------------------------- getForgeCommand, step by step

InitResolver ==
    /\ env \in {e \in Environments : e.native /\ e.wsl = e.wslPath
                                      /\ e.wsl = (e.platform = "win32")}
    /\ exchange = NoExchange
    /\ sanIn = <<>>
    /\ sanOut = NoResult
    /\ sanOut2 = NoResult
    /\ sanValid = FALSE
    /\ sanPhase = "idle"
    /\ IdlePipeline

\* Line 180 and the spawn of line 184: a call returns the cached command, or
\* spawns the probe of the first candidate and awaits it.
ResolverCall(c) ==
    /\ callers[c].pc = "idle"
    /\ LET late == \E d \in Callers : callers[d].pc = "returned" IN
       IF cachedForgeCommand # ""
       THEN /\ callers' = [callers EXCEPT ![c] =
                    [pc |-> "returned", idx |-> 0, ret |-> cachedForgeCommand,
                     late |-> late]]
            /\ UNCHANGED calls
       ELSE /\ callers' = [callers EXCEPT ![c] =
                    [pc |-> "probing", idx |-> 1, ret |-> "", late |-> late]]
            /\ calls' = Append(calls, Probe(Candidates(env)[1]))
    /\ UNCHANGED <<pc, env, code, sanitizerResult, outputLogs, verdict, result, res, files,
                   cachedForgeCommand, compilerResult, provider, modelIdx,
                   analysisResult, verificationResult, testRun, audits, svars, gvars, cvars>>

\* The probe a call awaits closes: on exit code 0 the candidate is cached
\* and returned, otherwise the next candidate is probed or, after the last,
\* 'forge' is returned with the cache left as it is (lines 189-221).
ResolverProbeClose(c) ==
    /\ callers[c].pc = "probing"
    /\ \E ok \in BOOLEAN :
        LET idx == callers[c].idx
            cmd == Candidates(env)[idx]
        IN IF ok
           THEN /\ cachedForgeCommand' = cmd
                /\ callers' = [callers EXCEPT ![c].pc = "returned", ![c].ret = cmd]
                /\ UNCHANGED calls
           ELSE IF idx < Len(Candidates(env))
           THEN /\ callers' = [callers EXCEPT ![c].idx = idx + 1]
                /\ calls' = Append(calls, Probe(Candidates(env)[idx + 1]))
                /\ UNCHANGED cachedForgeCommand
           ELSE /\ callers' = [callers EXCEPT ![c].pc = "returned", ![c].ret = "forge"]
                /\ UNCHANGED <<cachedForgeCommand, calls>>
    /\ UNCHANGED <<pc, env, code, sanitizerResult, outputLogs, verdict, result, res, files,
                   compilerResult, provider, modelIdx, analysisResult,
                   verificationResult, testRun, audits, svars, gvars, cvars>>

NextResolver == \E c \in Callers : ResolverCall(c) \/ ResolverProbeClose(c)

SpecResolver == InitResolver /\ [][NextResolver]_vars

\* ------------------------------------------- verifyHypothesis on its own

\* Targets a hypothesis handed to verifyHypothesis can carry.
SampleTargets ==
    { Withdraw, <<" ">> \o Withdraw, Withdraw \o <<" ">>, Withdraw \o <<"(", ")">>,
      <<"w", " ", "w">>, <<"1", "w">>, <<"_", "1">>, <<" ">>, <<>> }

\* What the hypotheses array holds after its first element.
FurtherHypotheses ==
    { <<>>,
      <<[target |-> <<"m", "i", "n", "t">>, vulnerabilityType |-> "REENTRANCY",
         confidence |-> Num(50, 0), reasoning |-> PlainReasoning]>>,
      <<[target |-> <<"m", "i", "n", "t", "(", ")">>, vulnerabilityType |-> "OTHER",
         confidence |-> Num(80, 0), reasoning |-> PlainReasoning]>> }

\* verifyHypothesis('Vault.sol', h) is called with the workspace as the
\* earlier stages of an audit leave it.
InitVerifier ==
    /\ pc = "inject"
    /\ env \in Environments
    /\ code \in PipelineSources
    /\ sanitizerResult = sanitizeImports(code)
    /\ analysisResult \in
          {[success |-> TRUE,
            hypotheses |-> <<[target |-> t, vulnerabilityType |-> "ACCESS_CONTROL",
                              confidence |-> Num(90, 0),
                              reasoning |-> PlainReasoning]>> \o rest,
            error |-> ""] : t \in SampleTargets, rest \in FurtherHypotheses}
    /\ outputLogs = <<>>
    /\ verdict = "UNKNOWN"
    /\ result = NoAudit
    /\ res = NoResponse
    /\ files = WriteFile(RepoFiles, Append(WORKSPACE_SRC, "Vault.sol"),
                         FileOf("contract", sanitizerResult.code))
    /\ cachedForgeCommand = ""
    /\ calls = <<>>
    /\ compilerResult = NoCompilerResult
    /\ provider = NoProvider
    /\ modelIdx = 0
    /\ verificationResult = NoVerification
    /\ testRun = NoTestRun
    /\ attempts = <<>>
    /\ exchange = NoExchange
    /\ thrown = "none"
    /\ child = NoChild
    /\ timer = "unset"
    /\ timedOut = FALSE
    /\ cpc = "idle"
    /\ callers = NoCallers
    /\ audits = NoAudits
    /\ sanIn = <<>>
    /\ sanOut = NoResult
    /\ sanOut2 = NoResult
    /\ sanValid = FALSE
    /\ sanPhase = "idle"

NextVerifier == StepInject \/ StepRunTest

SpecVerifier == InitVerifier /\ [][NextVerifier]_vars

\* ------------------------------------------------ audits running together

InFlightAudit(r) == r.pc \notin {"idle", "done"}

Raid == <<"r", "a", "i", "d">>

HypothesisFor(target) ==
    [target |-> target, vulnerabilityType |-> "ACCESS_CONTROL",
     confidence |-> Num(90, 0), reasoning |-> PlainReasoning]

\* What a toolchain run finds at a path of the sandbox.
ReadFile(fs, path) == IF path \in DOMAIN fs THEN fs[path].body ELSE <<>>

InitConcurrent ==
    /\ IdlePipeline
    /\ exchange = NoExchange
    /\ env = [platform |-> "linux", native |-> TRUE, wsl |-> FALSE, wslPath |-> FALSE]
    /\ sanIn = <<>>
    /\ sanOut = NoResult
    /\ sanOut2 = NoResult
    /\ sanValid = FALSE
    /\ sanPhase = "idle"

\* The handler of POST /audit calls runFullPipeline, which runs up to its
\* first await (line 100): STEP A writes the sanitized code.
AuditStart(a) ==
    /\ audits[a].pc = "idle"
    /\ \E c \in PipelineSources :
        LET others == \E b \in AuditIds : InFlightAudit(audits[b]) IN
        /\ files' = WriteFile(files, Append(WORKSPACE_SRC, "Vault.sol"),
                              FileOf("contract", sanitizeImports(c).code))
        /\ audits' = [b \in AuditIds |->
                        IF b = a
                        THEN [audits[a] EXCEPT !.pc = "preflight", !.code = c,
                                               !.overlapped = others]
                        ELSE IF InFlightAudit(audits[b])
                        THEN [audits[b] EXCEPT !.overlapped = TRUE]
                        ELSE audits[b]]
    /\ UNCHANGED <<pc, env, code, sanitizerResult, outputLogs, verdict, result, res,
                   cachedForgeCommand, calls, compilerResult, provider, modelIdx,
                   analysisResult, verificationResult, testRun, callers,
                   svars, gvars, cvars>>

\* compileCode up to the await of executeForge (lines 143-150): the
\* fixtures are copied and the contract is written.
AuditWrite(a) ==
    /\ audits[a].pc = "preflight"
    /\ files' = writeContractToWorkspace(copyMocksToWorkspace(files),
                                         sanitizeImports(audits[a].code).code)
    /\ audits' = [audits EXCEPT ![a].pc = "written"]
    /\ UNCHANGED <<pc, env, code, sanitizerResult, outputLogs, verdict, result, res,
                   cachedForgeCommand, calls, compilerResult, provider, modelIdx,
                   analysisResult, verificationResult, testRun, callers,
                   svars, gvars, cvars>>

\* The build runs: forge compiles what src/Vault.sol holds by then.
AuditBuild(a) ==
    /\ audits[a].pc = "written"
    /\ audits' = [audits EXCEPT
                    ![a].pc = "analyze",
                    ![a].built = ReadFile(files, Resolve(WORKSPACE_DIR, <<"src", "Vault.sol">>))]
    /\ UNCHANGED <<pvars, callers, svars, gvars, cvars>>

\* The analysis returns a hypothesis and verifyHypothesis runs up to the
\* await of the test command: the harness is written (lines 219-220).
AuditInject(a) ==
    /\ audits[a].pc = "analyze"
    /\ \E target \in {Withdraw, Raid} :
        LET injection == injectExploit(VaultFile, HypothesisFor(target), "ok", TRUE) IN
        /\ files' = WriteFile(files, TestFilePath, FileOf("harness", injection.harness))
        /\ audits' = [audits EXCEPT ![a].pc = "injected", ![a].target = target]
    /\ UNCHANGED <<pc, env, code, sanitizerResult, outputLogs, verdict, result, res,
                   cachedForgeCommand, calls, compilerResult, provider, modelIdx,
                   analysisResult, verificationResult, testRun, callers,
                   svars, gvars, cvars>>

\* The test command runs: forge compiles what test/Attacker.t.sol holds by
\* then, and the verdict is read from its output.
AuditTest(a) ==
    /\ audits[a].pc = "injected"
    /\ audits' = [audits EXCEPT ![a].pc = "done",
                                ![a].tested = ReadFile(files, TestFilePath)]
    /\ UNCHANGED <<pvars, callers, svars, gvars, cvars>>

NextConcurrent ==
    \E a \in AuditIds :
        \/ AuditStart(a)
        \/ AuditWrite(a)
        \/ AuditBuild(a)
        \/ AuditInject(a)
        \/ AuditTest(a)

SpecConcurrent == InitConcurrent /\ [][NextConcurrent]_vars

\* ---------------------------------------------- injectExploit on its own

SampleReasonings ==
    { PlainReasoning,
      <<"anyone can call it", "selfdestruct(payable(msg.sender));">> }

\* The hypotheses injectExploit(userCodeFileName, hypothesis) is called with.
InjectedHypotheses ==
    {[target |-> t, vulnerabilityType |-> ty, confidence |-> Num(90, 0), reasoning |-> r] :
        t \in {Withdraw, <<" ">> \o Withdraw, Withdraw \o <<"(", ")">>, <<>>},
        ty \in {"ACCESS_CONTROL", "REENTRANCY", "OTHER"},
        r \in SampleReasonings}

InitInjector ==
    /\ IdlePipeline
    /\ exchange = NoExchange
    /\ env = [platform |-> "linux", native |-> TRUE, wsl |-> FALSE, wslPath |-> FALSE]
    /\ sanIn = <<>>
    /\ sanOut = NoResult
    /\ sanOut2 = NoResult
    /\ sanValid = FALSE
    /\ sanPhase = "idle"

\* injectExploit(userCodeFileName, hypothesis), called once.
InjectExploit ==
    /\ pc = "idle"
    /\ \E f \in SampleFileNames, h \in InjectedHypotheses,
          template \in TemplateStates, writeOk \in BOOLEAN :
        LET injection == injectExploit(f, h, template, writeOk) IN
        /\ analysisResult' = [success |-> TRUE, hypotheses |-> <<h>>, error |-> ""]
        /\ calls' = Append(calls, Call("injectExploit", f.file))
        /\ thrown' = injection.error
        /\ files' = IF injection.success
                    THEN WriteFile(files, TestFilePath, FileOf("harness", injection.harness))
                    ELSE files
        /\ pc' = "injected"
    /\ UNCHANGED <<env, code, sanitizerResult, outputLogs, verdict, result, res,
                   cachedForgeCommand, compilerResult, provider, modelIdx,
                   verificationResult, testRun, attempts, exchange, svars, rvars, cvars>>

NextInjector == InjectExploit

SpecInjector == InitInjector /\ [][NextInjector]_vars

\* --------------------------------------------- parseResponse on its own

\* The contents parseResponse is called with: the responses with a content.
\* Further hypotheses a provider can send: a confidence with a fraction, and
\* type texts in other letter case or with other punctuation.
ParserOnlyHypotheses ==
    { RawHypothesis(Withdraw, AccessControlText, Num(72, 5), {}),
      RawHypothesis(Withdraw, <<"A", "c", "c", "e", "s", "s", " ", "C", "o", "n", "t", "r", "o", "l">>, Num(90, 0), {}),
      RawHypothesis(Withdraw, <<"R", "e", "-", "e", "n", "t", "r", "a", "n", "c", "y">>, Num(90, 0), {}),
      RawHypothesis(Withdraw, <<"i", "n", "t", "e", "g", "e", "r", "-", "o", "v", "e", "r", "f", "l", "o", "w">>, Num(90, 0), {}),
      RawHypothesis(Withdraw, <<"O", "v", "e", "r", "f", "l", "o", "w", ".">>, Num(90, 0), {}) }

ParsedContents ==
    {r \in Responses : r.kind = "not json"}
    \cup {[kind |-> "json", hasHypotheses |-> b, hypotheses |-> hs] :
            b \in BOOLEAN,
            hs \in UNION {[1..n -> SampleRawHypotheses \cup ParserOnlyHypotheses] :
                            n \in 0..MaxHypotheses}}

InitParser ==
    /\ exchange \in {[raw |-> r, parsed |-> NoAnalysis] : r \in ParsedContents}
    /\ sanIn = <<>>
    /\ sanOut = NoResult
    /\ sanOut2 = NoResult
    /\ sanValid = FALSE
    /\ sanPhase = "idle"
    /\ env = [platform |-> "linux", native |-> TRUE, wsl |-> FALSE, wslPath |-> FALSE]
    /\ IdlePipeline

\* parseResponse(content)
ParseResponse ==
    /\ pc = "idle"
    /\ exchange.raw.kind \in {"json", "not json"}
    /\ exchange.parsed = NoAnalysis
    /\ exchange' = [exchange EXCEPT !.parsed = parseResponse(exchange.raw)]
    /\ UNCHANGED <<svars, rvars, pvars, attempts, thrown, cvars>>

NextParser == ParseResponse

SpecParser == InitParser /\ [][NextParser]_vars

\* ------------------------------------------------------------ properties

\* How many calls of kind op the audit has made.
CountOf(op) == Cardinality({i \in 1..Len(calls) : calls[i].op = op})

StageOps == {"sanitizeImports", "compileCode", "analyzeContract", "verifyHypothesis"}
StageOrder == <<"sanitizeImports", "compileCode", "analyzeContract", "verifyHypothesis">>

\* The stage calls made so far, in the order they were made.
StagesRun ==
    LET made == SelectSeq(calls, LAMBDA c : c.op \in StageOps)
    IN [i \in 1..Len(made) |-> made[i].op]

Logged(msg) == \E i \in 1..Len(outputLogs) : outputLogs[i].msg = msg

\* C1: once the VERIFY stage has returned a VerificationResult, the audit
\* verdict is CRITICAL for VULNERABILITY_CONFIRMED, SECURE for FALSE_POSITIVE
\* and UNKNOWN for INCONCLUSIVE and COMPILATION_FAILED, and the verification
\* verdict is one of these four.
C1_VerdictReduction ==
    (pc = "done" /\ verificationResult # NoVerification) =>
        /\ verificationResult.verdict \in
              {"VULNERABILITY_CONFIRMED", "FALSE_POSITIVE", "INCONCLUSIVE",
               "COMPILATION_FAILED"}
        /\ verificationResult.verdict = "VULNERABILITY_CONFIRMED" => result.verdict = "CRITICAL"
        /\ verificationResult.verdict = "FALSE_POSITIVE" => result.verdict = "SECURE"
        /\ verificationResult.verdict \in {"INCONCLUSIVE", "COMPILATION_FAILED"}
              => result.verdict = "UNKNOWN"

C1_Witness ==
    /\ pc = "done"
    /\ testRun.ran
    /\ verificationResult.verdict = "FALSE_POSITIVE"
    /\ result.verdict = "SECURE"

\* C2: the stages are called in the order SANITIZE, COMPILE, ANALYZE, VERIFY,
\* each at most once, and so are the build and the test command; a provider
\* request is made only after a successful build; the harness is written and
\* the test command run only after a successful analysis with a hypothesis; a
\* failed build ends the audit with ERROR before ANALYZE and VERIFY.
C2_StageOrder ==
    /\ StagesRun = SubSeq(StageOrder, 1, Len(StagesRun))
    /\ CountOf("build") <= 1
    /\ CountOf("test") <= 1
    /\ CountOf("request") > 0 => compilerResult.success
    /\ (CountOf("write") > 0 \/ CountOf("test") > 0) =>
          (analysisResult.success /\ Len(analysisResult.hypotheses) >= 1)
    /\ (compilerResult # NoCompilerResult /\ ~compilerResult.success) =>
          /\ pc = "done"
          /\ result.verdict = "ERROR"
          /\ CountOf("analyzeContract") = 0
          /\ CountOf("request") = 0
          /\ CountOf("verifyHypothesis") = 0

C2_Witness ==
    /\ pc = "done"
    /\ StagesRun = StageOrder
    /\ CountOf("build") = 1
    /\ CountOf("request") = 2
    /\ CountOf("write") = 1
    /\ CountOf("test") = 1

ToolchainMissing == pc = "done" /\ CountOf("isFoundryAvailable") = 1 /\ CountOf("compileCode") = 0
BuildFailed == compilerResult # NoCompilerResult /\ ~compilerResult.success
ProviderUnconfigured == provider # NoProvider /\ ~isAPIKeyConfigured(provider)
AnalysisFailed == analysisResult # NoAnalysis /\ ~analysisResult.success
HarnessNotRendered == "Injection failed" \in verificationResult.testOutput

\* C3: an audit in which a stage failed (toolchain missing, build failure,
\* provider unconfigured, analysis without success, harness not rendered) ends
\* with verdict ERROR, and an audit that ends before the test command without
\* ERROR is one with zero hypotheses.
C3_StageFailureIsError ==
    pc = "done" =>
        /\ (ToolchainMissing \/ BuildFailed \/ ProviderUnconfigured \/ AnalysisFailed
            \/ HarnessNotRendered) => result.verdict = "ERROR"
        /\ (~testRun.ran /\ result.verdict # "ERROR") =>
              (analysisResult.success /\ analysisResult.hypotheses = <<>>)

\* C4: when the analysis succeeds with an empty list of hypotheses the audit
\* ends at once with SECURE: no verification, no harness written, no test run.
C4_NoHypothesesIsSecure ==
    (analysisResult.success /\ analysisResult.hypotheses = <<>>) =>
        /\ pc = "done"
        /\ result.verdict = "SECURE"
        /\ calls[Len(calls)].op = "request"
        /\ CountOf("verifyHypothesis") = 0
        /\ CountOf("write") = 0
        /\ CountOf("test") = 0
        /\ TestFilePath \notin DOMAIN files

C4_Witness ==
    /\ pc = "done"
    /\ analysisResult.success
    /\ analysisResult.hypotheses = <<>>
    /\ result.verdict = "SECURE"
    /\ CountOf("request") = 2

\* C5: whenever the test command has run and what was captured of its output
\* holds the exploit marker, the verdict of the verification is
\* VULNERABILITY_CONFIRMED, whether the command exited zero or not.
C5_ExploitMarkerConfirms ==
    (testRun.ran /\ EXPLOIT \in testRun.out) =>
        verificationResult.verdict = "VULNERABILITY_CONFIRMED"

\* C6: scenario A: the test command fails (non-zero exit) with the exploit
\* marker in its output, and the audit verdict is CRITICAL.
C6_ScenarioA ==
    (pc = "done" /\ testRun.ran /\ testRun.threw /\ EXPLOIT \in testRun.out) =>
        result.verdict = "CRITICAL"

\* C7: scenario B: the test command fails (non-zero exit) with [FAIL] and
\* without the exploit marker in its output, and the audit verdict is SECURE.
C7_ScenarioB ==
    (pc = "done" /\ testRun.ran /\ testRun.threw /\ "[FAIL]" \in testRun.out
        /\ EXPLOIT \notin testRun.out) =>
        result.verdict = "SECURE"

ToolchainAbsent == ~env.native /\ ~env.wsl /\ ~env.wslPath

\* C8: with the toolchain absent, the audit that reaches the pre-flight check
\* ends there with ERROR and the install instruction in the transcript, and no
\* file has been written: the file system is as it was before the audit.
C8_PreflightBeforeWrites ==
    (ToolchainAbsent /\ CountOf("isFoundryAvailable") = 1) =>
        /\ pc = "done"
        /\ result.verdict = "ERROR"
        /\ Logged(InstallHint)
        /\ files = RepoFiles

\* C9: the code sanitizeImports returns holds no untrusted-dependency prefix,
\* whatever the input.
C9_NoUntrustedPrefix ==
    sanPhase \in {"once", "twice"} => ~ContainsUntrusted(sanOut.code)

\* C10: sanitizing the output of sanitizeImports again leaves it as it is.
C10_Idempotent ==
    sanPhase = "twice" => sanOut2.code = sanOut.code

\* The number of lines of a text: one more than its line terminators.
LineCount(s) == 1 + Cardinality({i \in 1..Len(s) : s[i].k = "nl"})

\* The positions of the import paths of a source: its non-empty quoted strings.
ImportsOf(src) == {i \in 1..Len(src) : IsQuoted(src[i])}

\* C11: every import of the input whose path matches a whitelisted pattern
\* adds one entry to remappedImports, every other import adds its path to
\* removedImports, and the output has as many lines as the input.
C11_ImportAccounting ==
    sanPhase \in {"once", "twice"} =>
        /\ Len(sanOut.remappedImports) =
              Cardinality({i \in ImportsOf(sanIn) : WhitelistLookup(sanIn[i].v) # 0})
        /\ Len(sanOut.removedImports) =
              Cardinality({i \in ImportsOf(sanIn) : WhitelistLookup(sanIn[i].v) = 0})
        /\ LineCount(sanOut.code) = LineCount(sanIn)

\* C12: an audit whose sanitized code holds an untrusted prefix never goes on
\* to COMPILE and never reports the sanitization as successful.
C12_UntrustedOutputRejected ==
    (sanitizerResult # NoResult /\ ContainsUntrusted(sanitizerResult.code)) =>
        /\ ~sanitizerResult.success
        /\ ~Logged("Sanitized (Imports remapped)")
        /\ CountOf("isFoundryAvailable") = 0
        /\ CountOf("compileCode") = 0

\* C13: the models of the provider are attempted in list order, the k-th only
\* after every earlier one failed; the analysis succeeds with the hypotheses
\* of the first model that returned a schema-valid response, and fails only
\* after the last model of the list has failed.
C13_FallbackChain ==
    /\ Len(attempts) <= ModelsToTry(provider)
    /\ \A i \in 1..Len(attempts) : attempts[i].model = i
    /\ \A i \in 1..(Len(attempts) - 1) : attempts[i].outcome = "failed"
    /\ (analysisResult # NoAnalysis /\ analysisResult.success) =>
          /\ attempts[Len(attempts)].outcome = "valid"
          /\ Len(analysisResult.hypotheses) = Len(exchange.raw.hypotheses)
          /\ \A i \in 1..Len(analysisResult.hypotheses) :
                /\ analysisResult.hypotheses[i].target = exchange.raw.hypotheses[i].target
                /\ analysisResult.hypotheses[i].confidence =
                      exchange.raw.hypotheses[i].confidence
    /\ (analysisResult # NoAnalysis /\ ~analysisResult.success) =>
          /\ Len(attempts) = ModelsToTry(provider)
          /\ \A i \in 1..Len(attempts) : attempts[i].outcome = "failed"

C13_Witness ==
    /\ ModelsToTry(provider) = 1 + MaxFallbackModels
    /\ Len(attempts) = ModelsToTry(provider)
    /\ \A i \in 1..(Len(attempts) - 1) : attempts[i].outcome = "failed"
    /\ attempts[Len(attempts)].outcome = "valid"
    /\ analysisResult.success
    /\ Len(analysisResult.hypotheses) >= 1

\* The provider requests that have been issued and have not returned or thrown.
InFlight == {i \in 1..Len(attempts) : attempts[i].outcome = "pending"}

\* C14: during an analyze call at most one provider request is in flight, and
\* it is the latest one: every earlier request has returned or thrown.
C14_OneRequestInFlight ==
    /\ Cardinality(InFlight) <= 1
    /\ InFlight \subseteq {Len(attempts)}
    /\ (pc = "awaiting") <=> (InFlight # {})

C14_Witness ==
    /\ Len(attempts) = 2
    /\ attempts[1].outcome = "failed"
    /\ InFlight = {2}

\* A hypothesis the schema does not accept.
BadHypothesis(h) ==
    \/ Len(h.target) = 0
    \/ h.wrong \cap {"target", "vulnerabilityType", "reasoning"} # {}
    \/ h.confidence < Num(0, 0)
    \/ h.confidence > Num(100, 0)

\* A parsed response that lacks the hypotheses array or holds a bad hypothesis.
BadResponse(r) ==
    /\ r.kind = "json"
    /\ \/ ~r.hasHypotheses
       \/ \E i \in 1..Len(r.hypotheses) : BadHypothesis(r.hypotheses[i])

\* C15: a parsed response without a hypotheses array, or with one hypothesis
\* that has an empty or non-string target, a non-string vulnerabilityType or
\* reasoning, or a confidence outside 0..100, is rejected as a whole:
\* success is false and the hypotheses are empty, valid siblings included.
C15_ResponseRejectedAsWhole ==
    (BadResponse(exchange.raw) /\ exchange.parsed # NoAnalysis) =>
        /\ ~exchange.parsed.success
        /\ exchange.parsed.hypotheses = <<>>

C15_Witness ==
    /\ exchange.parsed # NoAnalysis
    /\ Len(exchange.raw.hypotheses) = 2
    /\ ~BadHypothesis(exchange.raw.hypotheses[1])
    /\ exchange.raw.hypotheses[2].wrong = {"reasoning"}
    /\ ~exchange.parsed.success
    /\ exchange.parsed.hypotheses = <<>>

KeyRequired(c) == c.aiProvider \in {"openai", "gemini"}

\* C16: when the provider selected requires an API key (openai, gemini) and
\* the key is absent, the audit ends with ERROR and issues no provider
\* request; openrouter, also selected for any unrecognised AI_PROVIDER, is
\* reported configured with or without a key and the analysis is called.
C16_ApiKeyCheck ==
    provider # NoProvider =>
        /\ (KeyRequired(provider) /\ ~provider.key) =>
              /\ pc = "done"
              /\ result.verdict = "ERROR"
              /\ Logged("Error: AI Provider API key not configured")
              /\ CountOf("analyzeContract") = 0
              /\ CountOf("request") = 0
              /\ attempts = <<>>
        /\ ~KeyRequired(provider) =>
              /\ ProviderOf(provider) = "openrouter"
              /\ ~Logged("Error: AI Provider API key not configured")
              /\ CountOf("analyzeContract") = 1

C16_Witness ==
    /\ pc = "done"
    /\ provider.aiProvider = "gemini"
    /\ ~provider.key
    /\ result.verdict = "ERROR"
    /\ CountOf("build") = 1
    /\ CountOf("request") = 0

\* C17: when no toolchain candidate answers the version probe, compileCode
\* returns success = false with a toolchain-not-found result and the build
\* command is never spawned in that call.
C17_NoBuildWithoutToolchain ==
    (ToolchainAbsent /\ cpc \in {"running", "returned"}
        /\ compilerResult # CompilerError) =>
        /\ CountOf("build") = 0
        /\ ~child.spawned
        /\ cpc = "returned"
        /\ ~compilerResult.success
        /\ compilerResult.status = "TOOLCHAIN NOT FOUND"

\* The build child process ended by itself, with an exit code.
ExitedWithCode == child.exit \in {"0", "1", "127"}

\* C18: a build killed by the deadline timer is reported with success = false
\* and status TIMEOUT; a build that ended by itself before the deadline is
\* never reported as TIMEOUT; once the result is delivered the timer is no
\* longer armed, so it kills no process afterwards.
C18_TimeoutOnlyWhenKilled ==
    /\ (child.killed /\ cpc = "returned") =>
          (~compilerResult.success /\ compilerResult.status = "TIMEOUT")
    /\ (ExitedWithCode /\ cpc = "returned") => compilerResult.status # "TIMEOUT"
    /\ cpc = "returned" => timer # "armed"

\* C19: for every completed build invocation, success is true exactly when
\* the build child process exited with code 0.
C19_SuccessIffExitZero ==
    (cpc = "returned" /\ child.spawned) =>
        (compilerResult.success <=> child.exit = "0")

\* C20: an exception thrown inside the pipeline ends the audit with an
\* AuditResult of verdict ERROR whose transcript holds the message of the
\* exception: runFullPipeline returns, it never rejects.
C20_ExceptionBecomesError ==
    thrown # "none" =>
        /\ pc = "done"
        /\ result # NoAudit
        /\ result.verdict = "ERROR"
        /\ \E i \in 1..Len(result.logs) :
              /\ result.logs[i].level = "error"
              /\ result.logs[i].msg = "FATAL EXCEPTION"
              /\ thrown \in result.logs[i].detail

C20_Witness ==
    /\ pc = "done"
    /\ thrown = "ENOSPC: no space left on device"
    /\ result.verdict = "ERROR"
    /\ CountOf("sanitizeImports") = 1
    /\ CountOf("isFoundryAvailable") = 0

\* A diagnostic in the transcript: an entry written by logError.
Diagnosed == \E i \in 1..Len(result.logs) : result.logs[i].level = "error"

\* The request never reached runFullPipeline.
Rejected == pc = "rejected" /\ calls = <<>> /\ result = NoAudit

\* C21 as stated: the endpoint answers 400 exactly when the request has no
\* code field.
C21_BadRequestIffNoField ==
    pc # "received" => (res.status = 400 <=> code = Undefined)

\* C21: the endpoint answers 400 exactly when the code of the request is
\* missing or falsy (the empty string included), and then the pipeline is not
\* entered; 500 is answered only when an exception escapes the pipeline;
\* every audit that returns is answered 200 with its result, and one in which
\* the toolchain is missing, the build fails, the provider is unconfigured or
\* the analysis fails carries verdict ERROR and a diagnostic in its logs.
C21_StatusCodes ==
    /\ res.status \in {0, 200, 400, 500}
    /\ pc # "received" => (res.status = 400 <=> code \in {Undefined, <<>>})
    /\ res.status = 400 => Rejected /\ res.error = "No code provided"
    /\ res.status = 500 => thrown # "none" /\ result = NoAudit
    /\ res.status = 200 <=> pc = "done"
    /\ pc = "done" =>
        /\ result.verdict = verdict
        /\ (ToolchainMissing \/ BuildFailed \/ ProviderUnconfigured \/ AnalysisFailed)
              => result.verdict = "ERROR" /\ Diagnosed

C21_Witness ==
    /\ code = <<>>
    /\ res = BadRequest
    /\ Rejected

IsPrefix(a, b) == Len(a) <= Len(b) /\ SubSeq(b, 1, Len(a)) = a

\* The stage a message of the transcript is written in, 0 for the messages
\* that belong to no stage (blank lines, the banner, the closing verdict).
StageOfMessage(msg) ==
    CASE msg \in {"STEP A: SANITIZATION", "Sanitized (Imports remapped)",
                  "import(s) remapped", "Saved to: workspace/src/Vault.sol"} -> 1
      [] msg \in {"STEP B: COMPILATION", "Error: Foundry not installed", InstallHint,
                  "Error compiling", "Compiled (Foundry build success)"} -> 2
      [] msg \in {"STEP C: AI ANALYSIS", "Error: AI Provider API key not configured",
                  "Check .env file for AI_PROVIDER and corresponding API key",
                  "Analyzing (AI hypothesis...)", "Error: AI analysis failed",
                  "Analysis complete: No vulnerabilities detected", "AI found",
                  "Vulnerability Type", "Confidence", "Reasoning"} -> 3
      [] msg \in {"STEP D: EXPLOIT VERIFICATION", "Injecting Exploit...",
                  "Target function", "Running Foundry...", "FOUNDRY OUTPUT:",
                  "testOutput", "No output captured"} -> 4
      [] OTHER -> 0

\* No staged entry of logs from position i on belongs to a stage before cur.
RECURSIVE InOrderFrom(_, _, _)
InOrderFrom(logs, i, cur) ==
    IF i > Len(logs) THEN TRUE
    ELSE LET k == StageOfMessage(logs[i].msg) IN
         IF k = 0 THEN InOrderFrom(logs, i + 1, cur)
         ELSE k >= cur /\ InOrderFrom(logs, i + 1, k)

\* The stage of the last staged entry among the first i of logs, 0 for none.
RECURSIVE LastStage(_, _)
LastStage(logs, i) ==
    IF i = 0 THEN 0
    ELSE LET k == StageOfMessage(logs[i].msg) IN
         IF k > 0 THEN k ELSE LastStage(logs, i - 1)

\* C22: the transcript is append-only (every step leaves what was logged
\* before as a prefix of the transcript), the entries of a stage precede the
\* entries of every later stage (no step appends an entry of a stage earlier
\* than the last one logged), and on every exit path the logs returned with
\* the verdict are the whole transcript at the terminal step.
C22_TranscriptAppendOnly ==
    [][ /\ IsPrefix(outputLogs, outputLogs')
        /\ InOrderFrom(outputLogs', Len(outputLogs) + 1,
                       LastStage(outputLogs, Len(outputLogs)))
        /\ (pc' = "done" => /\ result'.logs = outputLogs'
                            /\ result'.verdict = verdict'
                            /\ Len(outputLogs') > Len(outputLogs)) ]_vars

C22_Witness ==
    /\ pc = "done"
    /\ \A k \in 1..4 : \E i \in 1..Len(outputLogs) : StageOfMessage(outputLogs[i].msg) = k
    /\ result.logs = outputLogs
    /\ Logged("FINAL VERDICT: CRITICAL VULNERABILITY CONFIRMED")

\* /^[a-zA-Z_][a-zA-Z0-9_]*$/ on t as it is.
LegalIdentifier(t) ==
    /\ t # <<>>
    /\ t[1] \in IdentStart
    /\ \A i \in 2..Len(t) : t[i] \in IdentChar

InjectionSucceeded == CountOf("write") = 1

InjectionRefused == CountOf("verifyHypothesis") = 1 /\ CountOf("write") = 0

\* The state of the template file the injection found.
TemplateFound == calls[Len(calls)].arg

\* C23 as stated: the injection succeeds only if hypothesis.target is itself
\* a legal identifier.
C23_TargetItselfLegal ==
    InjectionSucceeded => LegalIdentifier(primaryHypothesis.target)

\* C23: the injection succeeds only if hypothesis.target with its
\* surrounding whitespace trimmed is a legal identifier; an invalid
\* identifier, a missing template and a missing marker each make it return
\* success=false with an error of their own, nothing is written to the
\* test-file path, and verifyHypothesis does not run the test command.
C23_InjectionGuard ==
    /\ InjectionSucceeded =>
        /\ LegalIdentifier(Trim(primaryHypothesis.target))
        /\ \E i \in 1..Len(files[TestFilePath].body) :
               files[TestFilePath].body[i] =
                    Str("target.call", Trim(primaryHypothesis.target))
    /\ InjectionRefused =>
        /\ pc = "done"
        /\ verificationResult.verdict = "INCONCLUSIVE"
        /\ ~verificationResult.exploitSucceeded
        /\ "Injection failed" \in verificationResult.testOutput
        /\ ~LegalIdentifier(Trim(primaryHypothesis.target))
              => "Invalid target function name" \in verificationResult.testOutput
        /\ (LegalIdentifier(Trim(primaryHypothesis.target)) /\ TemplateFound = "missing")
              => "Harness template not found" \in verificationResult.testOutput
        /\ (LegalIdentifier(Trim(primaryHypothesis.target)) /\ TemplateFound = "no marker")
              => "Injection marker not found in harness template"
                    \in verificationResult.testOutput
        /\ TestFilePath \notin DOMAIN files
        /\ ~testRun.ran
        /\ CountOf("test") = 0

C23_Witness ==
    /\ primaryHypothesis.target = <<" ">> \o Withdraw
    /\ InjectionSucceeded
    /\ testRun.ran

\* The verdict the priority list gives for the four booleans of an output.
VerdictByPriority(marker, failed, passed, compileError) ==
    IF marker THEN "VULNERABILITY_CONFIRMED"
    ELSE IF failed THEN "FALSE_POSITIVE"
    ELSE IF passed THEN "INCONCLUSIVE"
    ELSE IF compileError THEN "COMPILATION_FAILED"
    ELSE "INCONCLUSIVE"

C25_ThrowingPathAgrees ==
    (testRun.ran /\ testRun.threw /\ testRun.text) =>
        verificationResult.verdict = ClassifyOutput(testRun.out)

\* C26: the command cache is single-assignment under every interleaving of
\* concurrent getForgeCommand calls and every probe outcome: once set its
\* value never changes, and every call that returns afterwards returns it.
C26_CacheSingleAssignment ==
    [][ cachedForgeCommand # "" =>
          /\ cachedForgeCommand' = cachedForgeCommand
          /\ \A c \in Callers :
                (callers[c].pc # "returned" /\ callers'[c].pc = "returned")
                    => callers'[c].ret = cachedForgeCommand ]_vars

\* C27: once a first getForgeCommand call has completed, whether it found a
\* command or none, no call that starts later issues a candidate probe.
C27_ResolvedOnce ==
    \A c \in Callers : callers[c].late => callers[c].idx = 0

\* C28: every child process an audit has started and still awaits (a version
\* probe, the build, the test run) has a deadline timer armed for it.
C28_EveryChildHasDeadline ==
    (child.spawned /\ ~child.closed) => timer # "unset"

\* C29: every audit that was started reaches a terminal verdict and stays
\* there, given that provider requests return or fail and that deadline
\* timers fire, whether or not a child process of the toolchain ever exits.
C29_AuditTerminates == <>[](pc = "done")

\* C30: COMPILE and VERIFY work on one and the same sandbox root: once the
\* harness is written, the root of the build is the root of the test run and
\* the contract the harness imports, ../src/Vault.sol, is there.
C30_OneSandboxRoot ==
    TestFilePath \in DOMAIN files =>
        /\ WORKSPACE_DIR = VERIFIER_WORKSPACE_ROOT
        /\ Resolve(WORKSPACE_TEST_PATH, <<"..", "src", "Vault.sol">>) \in DOMAIN files

\* C37: in every VerificationResult that verifyHypothesis produced (injection
\* failure, test command exiting zero, test command throwing),
\* exploitSucceeded is true exactly when the verdict is
\* VULNERABILITY_CONFIRMED.
C37_ExploitFlagMatchesVerdict ==
    verificationResult # NoVerification =>
        (verificationResult.exploitSucceeded
            <=> verificationResult.verdict = "VULNERABILITY_CONFIRMED")

C37_Witness ==
    /\ verificationResult # NoVerification
    /\ testRun.ran
    /\ ~testRun.threw
    /\ "[FAIL]" \in testRun.out
    /\ verificationResult.exploitSucceeded
    /\ verificationResult.verdict = "VULNERABILITY_CONFIRMED"

\* C34: every hypothesis of an AnalysisResponse with success = true has a
\* confidence that is an integer in the range 0 to 100 and a non-empty target.
C34_ConfidenceIntegerInRange ==
    (exchange.parsed # NoAnalysis /\ exchange.parsed.success) =>
        \A i \in 1..Len(exchange.parsed.hypotheses) :
            LET h == exchange.parsed.hypotheses[i] IN
            /\ IsInteger(h.confidence)
            /\ h.confidence >= Num(0, 0)
            /\ h.confidence <= Num(100, 0)
            /\ Len(h.target) > 0

RecognisedNames == AccessControlNames \cup ReentrancyNames \cup OverflowNames

\* A provider text that equals a recognised name once letter case and the
\* characters that are not letters are disregarded.
EqualsRecognised(type, name) ==
    DropNonLetters(toUpperCase(type)) = DropNonLetters(name)

\* C35: every hypothesis the generator returns has a vulnerabilityType in
\* {ACCESS_CONTROL, REENTRANCY, OVERFLOW, OTHER}; a provider text that equals
\* a recognised name once letter case and non-letter characters are
\* disregarded maps to that name, and every unrecognised text maps to OTHER.
C35_TypeMappingIgnoresPunctuation ==
    (exchange.parsed # NoAnalysis /\ exchange.parsed.success) =>
        \A i \in 1..Len(exchange.parsed.hypotheses) :
            LET mapped == exchange.parsed.hypotheses[i].vulnerabilityType
                type == exchange.raw.hypotheses[i].vulnerabilityType
            IN /\ mapped \in {"ACCESS_CONTROL", "REENTRANCY", "OVERFLOW", "OTHER"}
               /\ \A name \in RecognisedNames :
                    EqualsRecognised(type, name) => mapped = MapNormalized(name)
               /\ (\A name \in RecognisedNames : ~EqualsRecognised(type, name)) =>
                    mapped = "OTHER"

\* The file name the single call of injectExploit was given.
InjectedFile == CHOOSE f \in SampleFileNames : f.file = calls[1].arg

HarnessWritten == pc = "injected" /\ TestFilePath \in DOMAIN files

Mentions(t, word) == \E i \in 1..Len(t.v) : t.v[i] = word

\* C32: for every contract file name other than Vault.sol the harness that
\* injectExploit renders imports that file and declares and instantiates the
\* target with that contract's name; no import of, or reference to, Vault
\* remains in it.
C32_HarnessNamesTheContract ==
    (HarnessWritten /\ InjectedFile # VaultFile) =>
        LET harness == files[TestFilePath].body
            Has(t) == \E i \in 1..Len(harness) : harness[i] = t
        IN /\ Has(Str("import", <<"..", "src", InjectedFile.file>>))
              \/ Has(Str("import", <<"src", InjectedFile.file>>))
           /\ Has(Str("public target", <<InjectedFile.name>>))
           /\ Has(Str("target = new", <<InjectedFile.name>>))
           /\ \A i \in 1..Len(harness) :
                /\ ~Mentions(harness[i], "Vault.sol")
                /\ ~Mentions(harness[i], "Vault")

\* A line of the harness that is a comment.
IsComment(t) ==
    t.k \in {"// Testing Access Control", "// Testing Reentrancy", "// Generic Access Test",
             "// Target Function:", "// Vulnerability Type:", "// Confidence:",
             "// Reasoning:", "// {{INJECT_ATTACK_CODE}}"}

Executable(harness) == SelectSeq(harness, LAMBDA t : ~IsComment(t))

\* C38: for every hypothesis injectExploit accepts, the only provider text
\* that is executable code in the rendered harness is the validated target
\* identifier: confidence, vulnerabilityType and reasoning stay inside
\* comments whatever they contain, line breaks included, and the rest of the
\* harness is the template unchanged.
C38_OnlyTargetIsExecutable ==
    (HarnessWritten /\ InjectedFile = VaultFile) =>
        LET h == analysisResult.hypotheses[1] IN
        Executable(files[TestFilePath].body) =
            Executable(ReplaceFirst(TemplateBody, INJECTION_MARKER,
                                    <<Str("target.call", Trim(h.target))>>))

\* C33: the pipeline acts only on hypotheses[0]. At most one hypothesis is
\* verified per audit, and the harness written and the verdict reached are
\* determined by the first hypothesis and the outcome of the test command
\* alone, so that two audits that differ only in the hypotheses of index 1
\* and above render the same harness and end with the same verdict.
C33_OnlyFirstHypothesis ==
    /\ CountOf("verifyHypothesis") <= 1
    /\ CountOf("verifyHypothesis") = 1 =>
        LET first == analysisResult.hypotheses[1] IN
        /\ TestFilePath \in DOMAIN files =>
              files[TestFilePath].body = RenderHarness(TemplateBody, VaultFile, first)
        /\ verificationResult # NoVerification =>
              /\ verificationResult.targetFunction = first.target
              /\ testRun.ran => verificationResult = runExploitTest(first, testRun)
              /\ ~testRun.ran => verificationResult.verdict = "INCONCLUSIVE"
              /\ pc = "done" => result.verdict = ReduceVerdict(verificationResult.verdict)

C33_Witness ==
    /\ pc = "done"
    /\ testRun.ran
    /\ Len(analysisResult.hypotheses) = 2
    /\ analysisResult.hypotheses[2].vulnerabilityType
          # analysisResult.hypotheses[1].vulnerabilityType
    /\ analysisResult.hypotheses[2].target # analysisResult.hypotheses[1].target
    /\ files[TestFilePath].body =
          RenderHarness(TemplateBody, VaultFile, analysisResult.hypotheses[1])
    /\ result.verdict = "CRITICAL"

\* The command prefixes the audit has run op ("build" or "test") with.
PrefixesOf(op) == {calls[i].arg : i \in {j \in 1..Len(calls) : calls[j].op = op}}

\* C39: the test run resolves the toolchain invocation as the build does. For
\* every platform and every combination of candidates answering the version
\* probe, the command prefix of the test command equals the one the Compiler
\* Adapter resolves for the build in the same environment.
C39_TestResolvesAsBuild ==
    /\ PrefixesOf("test") \subseteq {getForgeCommand("", env).cmd}
    /\ PrefixesOf("test") # {} => PrefixesOf("test") = PrefixesOf("build")

C39_Witness ==
    /\ env.platform = "win32"
    /\ ~env.native
    /\ ~env.wsl
    /\ env.wslPath
    /\ PrefixesOf("build") = {"wsl ~/.foundry/bin/forge"}
    /\ PrefixesOf("test") = {"wsl ~/.foundry/bin/forge"}

\* The entries of the returned transcript that report a failure.
ErrorEntries == {i \in 1..Len(result.logs) : result.logs[i].level = "error"}

FailedAttempts == {i \in 1..Len(attempts) : attempts[i].outcome = "failed"}

\* C36: every failure that occurs during an audit leaves an entry in the
\* returned transcript, none being recorded in the process console only:
\* each ERROR outcome does, and so does each failed fallback-model attempt.
C36_EveryFailureInTranscript ==
    pc = "done" =>
        /\ result.verdict = "ERROR" => ErrorEntries # {}
        /\ Cardinality(FailedAttempts) <= Cardinality(ErrorEntries)

\* The harness an audit's own hypothesis renders to.
OwnHarness(r) == RenderHarness(TemplateBody, VaultFile, HypothesisFor(r.target))

\* C31: two audits in flight share the sandbox without isolation, so that a
\* build or a test run of one can read what the other wrote; audits that are
\* serialized never do: the build of an audit that no other audit overlapped
\* compiles the audit's own sanitized source, and its test run compiles the
\* harness rendered from its own hypothesis.
C31_SerializedAuditsReadOwnInput ==
    \A a \in AuditIds :
        ~audits[a].overlapped =>
            /\ audits[a].pc \in {"analyze", "injected", "done"} =>
                  audits[a].built = sanitizeImports(audits[a].code).code
            /\ audits[a].pc = "done" => audits[a].tested = OwnHarness(audits[a])

C31_Witness ==
    /\ audits["A"].pc = "done"
    /\ audits["B"].pc = "done"
    /\ audits["A"].built = sanitizeImports(audits["B"].code).code
    /\ audits["A"].built # sanitizeImports(audits["A"].code).code
    /\ audits["A"].tested = OwnHarness(audits["B"])
    /\ audits["A"].tested # OwnHarness(audits["A"])

====
